---- MODULE Spec2Model ----
(***************************************************************************)
(* Flux Torrent: the session core (flux/core/session_worker.py,            *)
(* flux/core/torrent.py, flux/core/peer_filter.py) and the way the GUI     *)
(* drives it (flux/gui/main_window.py).                                    *)
(*                                                                         *)
(* Every slot and every timer callback of SessionWorker is one action      *)
(* over handler bodies written as operators; the blocking drain loop of    *)
(* shutdown is split at its sleep.  The libtorrent session is the          *)
(* environment: what pop_alerts returns is an input of the drain, and      *)
(* handles lose their validity on the engine's side.                       *)
(*                                                                         *)
(* Spec       one torrent through every handler, restarts included.        *)
(* LiveSpec   Spec with the fairness the straight-line code of shutdown    *)
(*            has: once entered, its loop and its tail run.                *)
(* TableSpec  two torrents, every category and clock value, under the      *)
(*            commands and the stats tick.                                 *)
(* PeerSpec   peer_connect alerts, the ban rules and the IP blocklist.     *)
(* ThreadSpec the slots called directly from the GUI thread, as            *)
(*            main_window.py calls them, while _update_stats runs step     *)
(*            by step on the worker thread.                                *)
(***************************************************************************)
EXTENDS Integers, Sequences, FiniteSets, TLC

\* ------------------------------------------------------------------ bounds
MaxClock == 2
MaxAlerts == 2
MaxPending == 1
DrainTicks == 2
MaxCalls == 2      \* slot calls from the GUI thread during one stats tick

\* ------------------------------------------------------------ value domains
Hashes == {"h1", "h2"}
NoHash == ""
\* str(handle.info_hash()) of a handle whose torrent object is gone:
\* torrent_handle::info_hash returns the all-zero digest, it does not raise
ZeroHash == "0000"
Addresses == {1, 2}
NoAddress == 0

\* json.loads / json.dumps over the tags_json arguments "", "[\"hd\"]", "{bad"
JsonValid(s) == s \in {"[]", "[\"hd\"]"}
JsonLoads(s) == IF s = "[\"hd\"]" THEN <<"hd">> ELSE <<>>
JsonDumps(t) == IF t = <<>> THEN "[]" ELSE "[\"hd\"]"

\* the (category, tags_json) pairs the add commands carry
AddArgs == {<<"", "">>, <<"Movies", "[\"hd\"]">>, <<"Movies", "{bad">>}
PausedArgs == {FALSE}

\* .torrent files: the info-hash lt.torrent_info reads, or a file it rejects
TorrentFiles == {"h1.torrent", "h2.torrent", "junk.torrent"}
FileReadable(f) == f \in {"h1.torrent", "h2.torrent"}
FileInfoHash(f) == IF f = "h1.torrent" THEN "h1" ELSE "h2"

\* magnet URIs: startswith("magnet:") and what lt.parse_magnet_uri returns
MagnetUris == {"", "not-a-magnet", "magnet:?xt=junk", "magnet:?xt=urn:btih:h1", " magnet:?xt=urn:btih:h2"}
StartsWithMagnet(u) == u \in {"magnet:?xt=junk", "magnet:?xt=urn:btih:h1", " magnet:?xt=urn:btih:h2"}
MagnetParses(u) == u \in {"magnet:?xt=urn:btih:h1", " magnet:?xt=urn:btih:h2"}
MagnetInfoHash(u) == IF u = "magnet:?xt=urn:btih:h1" THEN "h1" ELSE "h2"

\* ------------------------------------------------------------- configuration
\* a bandwidth schedule: enabled and rules, each rule a dict whose keys start,
\* end, dl, ul may be missing (Missing)
Missing == 0 - 1
NoSchedule == [present |-> FALSE, enabled |-> FALSE, rules |-> <<>>]
Schedule(enabled, rules) == [present |-> TRUE, enabled |-> enabled, rules |-> rules]
Rule(start, end, dl, ul) == [start |-> start, end |-> end, dl |-> dl, ul |-> ul]

DefaultCfg ==
    [bandwidth_schedule |-> NoSchedule, max_download_speed |-> 0, max_upload_speed |-> 13312,
     on_complete_action |-> 1, max_ratio |-> 2, ratio_action |-> 0,
     peer_filter_enabled |-> TRUE, auto_ban_xunlei |-> TRUE,
     auto_ban_qq |-> TRUE, auto_ban_baidu |-> TRUE,
     ip_blocklist |-> <<>>]

\* the config snapshots ApplySettings may carry; ip_blocklist is the file at
\* ip_blocklist_path, a sequence of lines, each a sequence of characters
\* (<<>>: no path, no file or an empty file)
Configs ==
    { DefaultCfg,
      [DefaultCfg EXCEPT !.on_complete_action = 2],
      [DefaultCfg EXCEPT !.on_complete_action = 0, !.max_ratio = 1, !.ratio_action = 1,
                         !.ip_blocklist = << <<"2", "-", "2">> >>],
      [DefaultCfg EXCEPT !.peer_filter_enabled = FALSE, !.auto_ban_xunlei = FALSE] }

\* -------------------------------------------------------------------- state
VARIABLES
    phase,          \* "new" | "running" | "stopping" | "stopped"
    cfg,            \* SessionWorker._cfg
    session,        \* SessionWorker._session is not None
    torrents,       \* SessionWorker._torrents, in insertion order
    resume_db,      \* rows of resume_data, by info_hash
    schema,         \* resume.db: the stored schema version, the columns of resume_data
    db_open,        \* SessionWorker._resume_db is not None
    ip_filter,      \* SessionWorker._ip_filter: address -> flags
    peer_filter,    \* SessionWorker._peer_filter
    focused_hash,   \* SessionWorker._focused_hash
    timers,         \* the QTimers that are running
    eng,            \* the engine's torrents: info_hash -> status bundle
    engine_filter,  \* the IP filter installed in the engine
    engine_seen,    \* hashes the engine has been given since the session began
    pending,        \* save_resume_data requests the engine has not answered
    outstanding,    \* _save_all_resume_data_sync: outstanding
    elapsed,        \* _save_all_resume_data_sync: sleeps since the loop began
    now,            \* time.time()
    emitted,        \* the signals the last step emitted, in order
    announced,      \* hashes torrent_added was emitted for since Initialize
    gone,           \* hashes whose last lifecycle signal is torrent_removed
    banned,         \* addresses peer_banned was emitted for in this session
    at_shutdown,    \* the torrent table when Shutdown began
    batch,          \* _process_alerts: the alerts the last drain popped
    tick,           \* _update_stats: where the running stats tick stands
    session_history, \* _session_dl_history and _session_ul_history
    engine_limits,  \* download_rate_limit and upload_rate_limit of the engine
    filter,         \* a PeerFilter object of its own, as a caller builds one
    last_check,     \* the last check_peer call on it and what it returned
    rss,            \* the RSSMonitor: feeds, pool, history database, signals
    settings        \* a Settings object and the settings table of its file

vars == <<phase, cfg, session, torrents, resume_db, schema, db_open, ip_filter,
          peer_filter, focused_hash, timers, eng, engine_filter, engine_seen, pending,
          outstanding, elapsed, now, emitted, announced, gone,
          banned, at_shutdown, batch, tick, session_history, engine_limits, filter, last_check,
          rss, settings>>

TimerNames == {"alert", "stats", "save", "schedule"}

\* ------------------------------------------------------------------ signals
Signal(type, h) ==
    [type |-> type, info_hash |-> h, torrents |-> <<>>, torrent_count |-> 0,
     address |-> NoAddress]
StatsSignal(snaps, count) ==
    [type |-> "stats_updated", info_hash |-> NoHash, torrents |-> snaps,
     torrent_count |-> count, address |-> NoAddress]
BanSignal(a) ==
    [type |-> "peer_banned", info_hash |-> NoHash, torrents |-> <<>>,
     torrent_count |-> 0, address |-> a]

\* --------------------------------------------------- the torrent table (dict)
Keys(t) == {t[i].key : i \in DOMAIN t}
Has(t, h) == \E i \in DOMAIN t : t[i].key = h
Get(t, h) == t[CHOOSE i \in DOMAIN t : t[i].key = h]
Del(t, h) == SelectSeq(t, LAMBDA r : r.key # h)
Put(t, r) ==
    IF Has(t, r.key)
    THEN [i \in DOMAIN t |-> IF t[i].key = r.key THEN r ELSE t[i]]
    ELSE Append(t, r)

\* ------------------------------------------------------------ the engine
\* files: what session.remove_torrent left of the torrent's files on disk;
\* errc, state, download_rate, num_seeds: the fields of torrent_status that
\* _resolve_state reads besides the paused and auto_managed flags
NoTorrent ==
    [st |-> "none", ratio |-> 0, paused |-> FALSE, auto_managed |-> FALSE, files |-> "kept",
     errc |-> 0, state |-> "downloading", download_rate |-> 0, num_seeds |-> 0]
NewEngineTorrent ==
    [st |-> "ok", ratio |-> 0, paused |-> FALSE, auto_managed |-> TRUE, files |-> "kept",
     errc |-> 0, state |-> "downloading", download_rate |-> 0, num_seeds |-> 0]

\* torrent_handle.is_valid()
HandleValid(e, h) == e[h].st \in {"ok", "throws"}

\* ----------------------------------------------------------- Torrent object
DefaultSnap == [valid |-> FALSE, state |-> "Error", info_hash |-> NoHash, ratio |-> 0]

\* lt.torrent_status.states
EngineStates ==
    {"checking_files", "downloading_metadata", "downloading", "finished", "seeding",
     "allocating", "checking_resume_data"}
StallRate == 1024

\* a state resolution that never reports Stalled
resolve_state_no_stall(s) ==
    IF s.errc # 0 THEN "Error"
    ELSE IF s.paused /\ ~s.auto_managed THEN "Paused"
    ELSE IF s.paused /\ s.auto_managed THEN "Queued"
    ELSE IF s.state \in {"checking_files", "checking_resume_data"} THEN "Checking"
    ELSE IF s.state = "downloading_metadata" THEN "Metadata"
    ELSE IF s.state = "downloading" THEN "Downloading"
    ELSE IF s.state = "finished" THEN "Completed"
    ELSE IF s.state = "seeding" THEN "Seeding"
    ELSE "Downloading"

\* Torrent._resolve_state.  The two flags come from s.paused and
\* s.auto_managed or, where the binding has dropped those attributes, from the
\* same two bits of s.flags.
resolve_state(s) ==
    IF s.errc # 0 THEN "Error"
    ELSE IF s.paused /\ ~s.auto_managed THEN "Paused"
    ELSE IF s.paused /\ s.auto_managed THEN "Queued"
    ELSE IF s.state \in {"checking_files", "checking_resume_data"} THEN "Checking"
    ELSE IF s.state = "downloading_metadata" THEN "Metadata"
    ELSE IF s.state = "downloading"
    THEN (IF s.download_rate < StallRate /\ s.num_seeds > 0 THEN "Stalled"
          ELSE "Downloading")
    ELSE IF s.state = "finished" THEN "Completed"
    ELSE IF s.state = "seeding" THEN "Seeding"
    ELSE "Downloading"

\* Torrent.snapshot: one status() call, cached in _snap
snapshot(t, e) ==
    IF e[t.handle].st = "ok"
    THEN [valid |-> TRUE,
          state |-> resolve_state(e[t.handle]),
          info_hash |-> t.handle,
          ratio |-> e[t.handle].ratio]
    ELSE [valid |-> FALSE, state |-> "Error", info_hash |-> t.snap.info_hash, ratio |-> 0]

\* Torrent.__init__
NewTorrent(handle, category, tags, time, e) ==
    LET t0 == [key |-> handle, handle |-> handle, category |-> category,
               tags |-> tags, added_time |-> time, snap |-> DefaultSnap,
               speed_history_dl |-> <<>>, speed_history_ul |-> <<>>]
    IN  [t0 EXCEPT !.snap = snapshot(t0, e)]

\* the speed histories: append the sample, then drop the oldest when the
\* list has grown past its maximum
max_session_history == 300
max_history == 120

\* a history that keeps every sample
record_keeps_all(history, sample, max) == Append(history, sample)

record(history, sample, max) ==
    LET appended == Append(history, sample)
    IN  IF Len(appended) > max THEN Tail(appended) ELSE appended

\* Torrent.record_speed; dl and ul are the speeds of the cached snapshot
record_speed(t, dl, ul) ==
    [t EXCEPT !.speed_history_dl = record(@, dl, max_history),
              !.speed_history_ul = record(@, ul, max_history)]

\* Torrent.pause on the engine side
\* a pause that leaves the auto-managed flag as it is
pause_keeps_auto_managed(e, h) ==
    IF HandleValid(e, h)
    THEN [e EXCEPT ![h].paused = TRUE]
    ELSE e

pause(e, h) ==
    IF HandleValid(e, h)
    THEN [e EXCEPT ![h].auto_managed = FALSE, ![h].paused = TRUE]
    ELSE e

\* ------------------------------------------------------------- the Resume Store
\* the rows of resume_data in rowid order, which is the order an unordered
\* SELECT returns them in; INSERT OR REPLACE deletes the old row and appends
NoRows == <<>>
Upsert(db, row) == Append(Del(db, row.key), row)
DeleteRow(db, h) == Del(db, h)

\* resume.db on disk.  tables: the tables that exist; version: the rows of
\* schema_version (at most the one with id 1); columns: those of resume_data
SCHEMA_VERSION == 2
BaseColumns == {"info_hash", "resume_data", "name", "category", "tags", "added_time", "save_path"}
NewDatabase == [tables |-> {}, version |-> <<>>, columns |-> {}]

\* SessionWorker._get_schema_version
get_schema_version(s) == IF s.version = <<>> THEN 0 ELSE s.version[1]

\* SessionWorker._set_schema_version
set_schema_version(s, version) == [s EXCEPT !.version = <<version>>]

\* CREATE TABLE IF NOT EXISTS resume_data (...)
create_resume_data(s) ==
    IF "resume_data" \in s.tables THEN s
    ELSE [s EXCEPT !.tables = @ \cup {"resume_data"}, !.columns = BaseColumns]

\* the two ALTER TABLE ... ADD COLUMN of _migrate_schema under one try: the
\* first that raises (no such table, duplicate column name) ends the block
add_limit_columns(s) ==
    IF "resume_data" \notin s.tables \/ "dl_limit" \in s.columns THEN s
    ELSE IF "ul_limit" \in s.columns THEN [s EXCEPT !.columns = @ \cup {"dl_limit"}]
    ELSE [s EXCEPT !.columns = @ \cup {"dl_limit", "ul_limit"}]

\* SessionWorker._migrate_schema
migrate_schema(s, from_version) ==
    LET s1 == IF from_version < 1 THEN create_resume_data(s) ELSE s
        s2 == IF from_version < 2 THEN add_limit_columns(s1) ELSE s1
    IN  set_schema_version(s2, SCHEMA_VERSION)

\* SessionWorker._init_resume_db
init_resume_db(s) ==
    LET s1 == [s EXCEPT !.tables = @ \cup {"schema_version"}]
        version == get_schema_version(s1)
    IN  IF version = 0
        THEN set_schema_version(create_resume_data(s1), SCHEMA_VERSION)
        ELSE IF version < SCHEMA_VERSION THEN migrate_schema(s1, version)
        ELSE s1

\* ------------------------------------------------------------- lt.ip_filter
EmptyFilter == [a \in Addresses |-> 0]
add_rule(f, first, last, flags) ==
    [a \in Addresses |-> IF first <= a /\ a <= last THEN flags ELSE f[a]]

\* ------------------------------------------------------------- PeerFilter
\* peer ids as character sequences, so that startswith is computed
PidXunlei == <<"-", "X", "L", "0">>
PidQbit == <<"-", "q", "B", "4">>
StartsWith(s, p) == Len(p) <= Len(s) /\ SubSeq(s, 1, Len(p)) = p

KNOWN_LEECHERS ==
    << [pattern |-> <<"-", "X", "L">>, reason |-> "Xunlei/Thunder", family |-> "xunlei"],
       [pattern |-> <<"-", "S", "D">>, reason |-> "Thunder (Xunlei variant)", family |-> "xunlei"],
       [pattern |-> <<"-", "X", "F">>, reason |-> "Xfplay", family |-> "any"],
       [pattern |-> <<"-", "Q", "D">>, reason |-> "QQ Tornado/Whirlwind", family |-> "qq"],
       [pattern |-> <<"-", "B", "N">>, reason |-> "Baidu Net", family |-> "baidu"],
       [pattern |-> <<"-", "D", "L">>, reason |-> "Dalunlei", family |-> "xunlei"],
       [pattern |-> <<"-", "T", "S">>, reason |-> "TorrentStorm", family |-> "any"],
       [pattern |-> <<"-", "F", "G">>, reason |-> "FlashGet", family |-> "any"],
       [pattern |-> <<"-", "T", "T">>, reason |-> "TuoTu", family |-> "any"] >>

\* client strings and re.search(pattern, client, IGNORECASE) over SUSPICIOUS_CLIENTS
SUSPICIOUS_CLIENTS ==
    << [pattern |-> "Xunlei", reason |-> "Xunlei client name match"],
       [pattern |-> "Thunder", reason |-> "Thunder client name match"],
       [pattern |-> "QQDownload", reason |-> "QQ Download"],
       [pattern |-> "7\\.\\d+\\.\\d+\\.\\d+", reason |-> "Xunlei version pattern"] >>
ReSearch(pattern, client) ==
    \/ pattern = "Xunlei" /\ client = "Xunlei 7.2.1"
    \/ pattern = "Thunder" /\ client = "thunder 5"
    \/ pattern = "QQDownload" /\ client = "QQDownload 1.0"
    \/ pattern = "7\\.\\d+\\.\\d+\\.\\d+" /\ client = "uTorrent 7.10.3.45"
    \/ pattern = "qbit" /\ client = "qBittorrent/4.5.0"
\* re.compile(pattern) succeeds; re.search raises re.error when it does not
ReCompiles(pattern) == pattern # "[bad"
\* re.error leaving check_peer, in place of the pair it would have returned
ReError == <<FALSE, "re.error raised">>

max_log == 500

\* PeerFilter.__init__
NewPeerFilter ==
    [enabled |-> TRUE, ban_xunlei |-> TRUE, ban_qq |-> TRUE, ban_baidu |-> TRUE,
     custom_bans |-> <<>>, ip_blocklist |-> <<>>, whitelist |-> <<>>, ban_log |-> <<>>]

\* peer_id.decode(...)[:8]
peer_id_str(peer_id) ==
    IF Len(peer_id) > 8 THEN SubSeq(peer_id, 1, 8) ELSE peer_id

\* PeerFilter.configure
configure(pf, c) ==
    [pf EXCEPT !.enabled = c.peer_filter_enabled, !.ban_xunlei = c.auto_ban_xunlei,
               !.ban_qq = c.auto_ban_qq, !.ban_baidu = c.auto_ban_baidu]

\* active rules that leave the category flags aside
get_active_rules_all(pf) == KNOWN_LEECHERS

\* PeerFilter._get_active_rules
get_active_rules(pf) ==
    SelectSeq(KNOWN_LEECHERS,
              LAMBDA r : /\ ~(r.family = "xunlei" /\ ~pf.ban_xunlei)
                         /\ ~(r.family = "qq" /\ ~pf.ban_qq)
                         /\ ~(r.family = "baidu" /\ ~pf.ban_baidu))

FirstMatch(hits) ==
    IF \E i \in DOMAIN hits : hits[i]
    THEN (CHOOSE i \in DOMAIN hits :
              hits[i] /\ \A j \in 1..(i - 1) : ~hits[j])
    ELSE 0

\* PeerFilter._check_ip_blocked; addresses are integers already
check_ip_blocked(pf, ip) ==
    \E i \in DOMAIN pf.ip_blocklist :
        pf.ip_blocklist[i][1] <= ip /\ ip <= pf.ip_blocklist[i][2]

\* check_peer, lines 85-110: the built-in peer-id rules, the client-name
\* patterns, the custom rules, the blocklist.  A custom rule holds its pattern
\* twice, as characters (pattern, for startswith) and as the text handed to
\* re.search (text).
\* the loop over _custom_bans (lines 99-103): the index of the rule it stops
\* at, 0 when it runs to the end; startswith is tried before re.search, which
\* raises on a pattern that does not compile
RECURSIVE custom_stop(_, _, _, _)
custom_stop(rules, id, client_name, i) ==
    IF i > Len(rules) THEN 0
    ELSE IF rules[i].enabled
            /\ (\/ StartsWith(id, rules[i].pattern)
                \/ ~ReCompiles(rules[i].text)
                \/ ReSearch(rules[i].text, client_name))
    THEN i
    ELSE custom_stop(rules, id, client_name, i + 1)

\* rules whose client-name patterns follow the category flags as the peer-id
\* prefixes do
match_rules_flagged_names(pf, id, client_name, ip) ==
    LET active == get_active_rules(pf)
        byId == FirstMatch([i \in DOMAIN active |-> StartsWith(id, active[i].pattern)])
        byName == FirstMatch([i \in DOMAIN SUSPICIOUS_CLIENTS |->
                                 /\ ReSearch(SUSPICIOUS_CLIENTS[i].pattern, client_name)
                                 /\ IF SUSPICIOUS_CLIENTS[i].pattern = "QQDownload"
                                    THEN pf.ban_qq ELSE pf.ban_xunlei])
    IN  IF byId # 0 THEN <<TRUE, active[byId].reason>>
        ELSE IF byName # 0 THEN <<TRUE, SUSPICIOUS_CLIENTS[byName].reason>>
        ELSE IF check_ip_blocked(pf, ip) THEN <<TRUE, "IP blocklist">>
        ELSE <<FALSE, "">>

match_rules(pf, id, client_name, ip) ==
    LET active == get_active_rules(pf)
        byId == FirstMatch([i \in DOMAIN active |-> StartsWith(id, active[i].pattern)])
        byName == FirstMatch([i \in DOMAIN SUSPICIOUS_CLIENTS |->
                                 ReSearch(SUSPICIOUS_CLIENTS[i].pattern, client_name)])
        byCustom == custom_stop(pf.custom_bans, id, client_name, 1)
    IN  IF byId # 0 THEN <<TRUE, active[byId].reason>>
        ELSE IF byName # 0 THEN <<TRUE, SUSPICIOUS_CLIENTS[byName].reason>>
        ELSE IF byCustom # 0
        THEN (IF StartsWith(id, pf.custom_bans[byCustom].pattern)
                 \/ ReCompiles(pf.custom_bans[byCustom].text)
              THEN <<TRUE, pf.custom_bans[byCustom].reason>>
              ELSE ReError)
        ELSE IF check_ip_blocked(pf, ip) THEN <<TRUE, "IP blocklist">>
        ELSE <<FALSE, "">>

\* a check_peer that does not look at the enabled flag
check_peer_always_on(pf, peer_id, client_name, ip) ==
    IF \E i \in DOMAIN pf.whitelist : StartsWith(peer_id_str(peer_id), pf.whitelist[i])
    THEN <<FALSE, "">>
    ELSE match_rules(pf, peer_id_str(peer_id), client_name, ip)

\* a check_peer that does not look at the whitelist
check_peer_no_whitelist(pf, peer_id, client_name, ip) ==
    IF ~pf.enabled THEN <<FALSE, "">>
    ELSE match_rules(pf, peer_id_str(peer_id), client_name, ip)

\* PeerFilter.check_peer: <<should_ban, reason>>
check_peer(pf, peer_id, client_name, ip) ==
    IF ~pf.enabled THEN <<FALSE, "">>
    ELSE IF \E i \in DOMAIN pf.whitelist :
                StartsWith(peer_id_str(peer_id), pf.whitelist[i])
    THEN <<FALSE, "">>
    ELSE match_rules(pf, peer_id_str(peer_id), client_name, ip)

\* a ban log that never drops an entry
log_ban_keeps_all(pf, ip, client, reason, time) ==
    [pf EXCEPT !.ban_log =
        Append(@, [time |-> time, ip |-> ip, client |-> client, reason |-> reason])]

\* PeerFilter._log_ban
log_ban(pf, ip, client, reason, time) ==
    LET appended == Append(pf.ban_log,
                           [time |-> time, ip |-> ip, client |-> client, reason |-> reason])
    IN  [pf EXCEPT !.ban_log = IF Len(appended) > max_log THEN Tail(appended) ELSE appended]

\* PeerFilter.add_custom_rule: BanRule(pattern, reason), enabled by default
add_custom_rule(pf, rule) ==
    [pf EXCEPT !.custom_bans =
        Append(@, [pattern |-> rule.pattern, text |-> rule.text, reason |-> rule.reason,
                   enabled |-> TRUE])]

\* PeerFilter.remove_custom_rule; index counts from 0
remove_custom_rule(pf, index) ==
    IF 0 <= index /\ index < Len(pf.custom_bans)
    THEN [pf EXCEPT !.custom_bans =
             SubSeq(@, 1, index) \o SubSeq(@, index + 2, Len(@))]
    ELSE pf

\* PeerFilter.add_whitelist
add_whitelist(pf, prefix) ==
    IF \E i \in DOMAIN pf.whitelist : pf.whitelist[i] = prefix THEN pf
    ELSE [pf EXCEPT !.whitelist = Append(@, prefix)]

\* PeerFilter.load_blocklist_p2p; ranges: what the lines of the file parse to
load_blocklist_p2p(pf, ranges) == [pf EXCEPT !.ip_blocklist = ranges]

\* no check_peer call yet; afterwards <<peer, should_ban, reason>>
NoCheck == <<>>

\* ----------------------------------------------------------------- RSSMonitor
\* FeedItem, as parse_feed returns it
FeedItem(title, link, magnet, torrent_url, guid) ==
    [title |-> title, link |-> link, magnet |-> magnet, torrent_url |-> torrent_url,
     guid |-> guid]

\* link.endswith('.torrent') or 'magnet:' in link, for the links of the model
LinkIsDownload(link) == link \in {"magnet:?xt=urn:btih:abc123", "https://example.com/b.torrent"}

\* FeedItem.download_url
download_url(item) ==
    IF item.magnet # "" THEN item.magnet
    ELSE IF item.torrent_url # "" THEN item.torrent_url
    ELSE IF item.link # "" /\ LinkIsDownload(item.link) THEN item.link
    ELSE ""

\* FeedItem.unique_id; the digest of title + link + magnet is a name made
\* of the title (the titles of the model tell such items apart)
unique_id(item) ==
    IF item.guid # "" THEN item.guid
    ELSE IF item.title = "Atom Item" THEN "sha256:Atom Item" ELSE "sha256:other"

\* re.search(pattern, title, re.IGNORECASE): "error" when the pattern does
\* not compile
Search(pattern, title) ==
    IF pattern = "[invalid" THEN "error"
    ELSE IF pattern = "ubuntu" /\ title \in {"Ubuntu 22.04.3 LTS Desktop", "Ubuntu mirror"}
    THEN "match"
    ELSE "none"

\* FeedConfig
FeedConfig(url, enabled, include_pattern, exclude_pattern, auto_download) ==
    [url |-> url, enabled |-> enabled, include_pattern |-> include_pattern,
     exclude_pattern |-> exclude_pattern, save_path |-> "", category |-> "",
     auto_download |-> auto_download, interval_minutes |-> 30, name |-> ""]

\* FeedConfig.from_dict: the fields d names, the defaults of the dataclass
\* for the others; keys that are no fields are dropped
from_dict(d) ==
    LET default == FeedConfig("", TRUE, "", "", TRUE)
    IN  [k \in DOMAIN default |-> IF k \in DOMAIN d THEN d[k] ELSE default[k]]

\* a matches that looks at the include pattern only
matches_include_only(config, title) ==
    ~(config.include_pattern # "" /\ Search(config.include_pattern, title) # "match")

\* FeedConfig.matches
matches(config, title) ==
    IF config.include_pattern # "" /\ Search(config.include_pattern, title) # "match"
    THEN FALSE
    ELSE IF config.exclude_pattern # "" /\ Search(config.exclude_pattern, title) = "match"
    THEN FALSE
    ELSE TRUE

FeedUrls == {"f1", "f2"}
NoFeed == FeedConfig("", FALSE, "", "", FALSE)
ItemIds == {"item-001", "item-002", "item-003", "sha256:Atom Item"}

\* the signals of the monitor
RssSignal(type, feed_url, download, total_items, new_items) ==
    [type |-> type, feed_url |-> feed_url, download_url |-> download,
     total_items |-> total_items, new_items |-> new_items]

\* _timers: the period, in ms, of the running repeating timer of a url
NoTimer == 0 - 1

\* the last timer callback that ran: a repeating timer's ("timer") or the
\* one-shot's that add_feed leaves behind ("warmup")
NoTimeout == [kind |-> "none", url |-> ""]

\* a _restart_timer that does not stop the timer it replaces
restart_timer_keeps_old(r, config) ==
    LET running == r.timers[config.url] # NoTimer
        r1 == IF running THEN [r EXCEPT !.stray[config.url] = @ + 1] ELSE r
    IN  IF ~config.enabled THEN [r1 EXCEPT !.timers[config.url] = NoTimer]
        ELSE [r1 EXCEPT !.timers[config.url] = config.interval_minutes * 60 * 1000,
                        !.warmup = @ \cup {config.url}]

\* RSSMonitor._restart_timer; a timer that was stopped counts as none.
\* stray: the running repeating timers of a url that _timers no longer holds;
\* warmup: the urls a singleShot(2000) is still pending for
restart_timer(r, config) ==
    IF ~config.enabled THEN [r EXCEPT !.timers[config.url] = NoTimer]
    ELSE [r EXCEPT !.timers[config.url] = config.interval_minutes * 60 * 1000,
                   !.warmup = @ \cup {config.url}]

\* RSSMonitor.__init__; counted and added tell how often an id was counted as
\* new and how often new_torrent was emitted for it
NewRSSMonitor ==
    [feeds |-> [u \in FeedUrls |-> NoFeed], pool_open |-> TRUE, db_open |-> TRUE,
     timers |-> [u \in FeedUrls |-> NoTimer],
     stray |-> [u \in FeedUrls |-> 0], warmup |-> {}, last_timeout |-> NoTimeout,
     seen_items |-> {}, in_flight |-> {}, results |-> <<>>, emitted |-> <<>>,
     counted |-> [i \in ItemIds |-> 0], added |-> [i \in ItemIds |-> 0]]

\* RSSMonitor.add_feed
add_feed_body(r, config) ==
    restart_timer([r EXCEPT !.feeds[config.url] = config], config)

\* RSSMonitor.load_config
RECURSIVE load_config_body(_, _)
load_config_body(r, feed_list) ==
    IF feed_list = <<>> THEN r
    ELSE LET config == from_dict(Head(feed_list))
         IN  load_config_body(IF config.url # "" THEN add_feed_body(r, config) ELSE r,
                              Tail(feed_list))

\* RSSMonitor._schedule_fetch; submit raises on a pool that was shut down
schedule_fetch_body(r, url) ==
    IF r.feeds[url] = NoFeed \/ ~r.feeds[url].enabled THEN r
    ELSE IF ~r.pool_open THEN r
    ELSE [r EXCEPT !.in_flight = @ \cup {url}]

\* RSSMonitor._is_seen
is_seen(r, item_id) ==
    r.db_open /\ \E row \in r.seen_items : row.item_id = item_id

\* a _mark_seen that inserts without looking
mark_seen_again(r, item_id, feed_url, title) ==
    [r EXCEPT !.seen_items = @ \cup {[item_id |-> item_id, feed_url |-> feed_url,
                                       title |-> title]}]

\* RSSMonitor._mark_seen: INSERT OR IGNORE (the seen_time of the row left out)
mark_seen(r, item_id, feed_url, title) ==
    IF ~r.db_open THEN r
    ELSE IF \E row \in r.seen_items : row.item_id = item_id THEN r
    ELSE [r EXCEPT !.seen_items = @ \cup {[item_id |-> item_id, feed_url |-> feed_url,
                                            title |-> title]}]

\* the loop of _process_feed over the items that are left, then feed_checked
RECURSIVE process_items(_, _, _, _, _)
process_items(r, config, items, total, new_count) ==
    IF items = <<>>
    THEN [r EXCEPT !.emitted = Append(@, RssSignal("feed_checked", config.url, "",
                                                   total, new_count))]
    ELSE LET item == Head(items)
             id == unique_id(item)
             r1 == mark_seen(r, id, config.url, item.title)
             r2 == [r1 EXCEPT !.counted[id] = @ + 1]
             r3 == IF config.auto_download
                   THEN [r2 EXCEPT
                            !.added[id] = @ + 1,
                            !.emitted = Append(@, RssSignal("new_torrent", config.url,
                                                            download_url(item), 0, 0))]
                   ELSE r2
         IN  IF download_url(item) = "" \/ ~matches(config, item.title) \/ is_seen(r, id)
             THEN process_items(r, config, Tail(items), total, new_count)
             ELSE process_items(r3, config, Tail(items), total, new_count + 1)

\* RSSMonitor._process_feed; items: what parse_feed makes of the text
process_feed_body(r, url, items) ==
    IF r.feeds[url] = NoFeed THEN r
    ELSE process_items(r, r.feeds[url], items, Len(items), 0)

\* ------------------------------------------------------------------ Settings
\* JSON values, each with its kind: null, booleans, numbers, strings, lists
JsonValues ==
    { <<"null">>, <<"bool", FALSE>>, <<"bool", TRUE>>, <<"int", 12345>>,
      <<"float", 35>>, <<"str", "12345">>, <<"str", "/tmp/test">>,
      <<"list", <<1, 2>>>> }

\* json.dumps; the float 3.5 is held as 35 tenths
dumps(value) ==
    CASE value[1] = "null" -> "null"
      [] value[1] = "bool" -> IF value[2] THEN "true" ELSE "false"
      [] value[1] = "int" -> "12345"
      [] value[1] = "float" -> "3.5"
      [] value[1] = "str" -> IF value[2] = "12345" THEN "\"12345\"" ELSE "\"/tmp/test\""
      [] value[1] = "list" -> "[1, 2]"

\* json.loads of a text json.dumps wrote
loads(text) ==
    CASE text = "null" -> <<"null">>
      [] text = "true" -> <<"bool", TRUE>>
      [] text = "false" -> <<"bool", FALSE>>
      [] text = "12345" -> <<"int", 12345>>
      [] text = "3.5" -> <<"float", 35>>
      [] text = "\"12345\"" -> <<"str", "12345">>
      [] text = "\"/tmp/test\"" -> <<"str", "/tmp/test">>
      [] text = "[1, 2]" -> <<"list", <<1, 2>>>>

SettingKeys == {"listen_port", "default_save_path"}
NoRow == ""

\* Settings.DEFAULTS
DEFAULTS(key) ==
    IF key = "listen_port" THEN <<"int", 6881>> ELSE <<"str", "~/Downloads">>

\* Settings.__init__ on a new file; rows: the settings table, key -> value
\* text; written: the value the last set(key, ...) was given
NoValue == <<"unset">>
NewSettings ==
    [open |-> TRUE, rows |-> [k \in SettingKeys |-> NoRow],
     written |-> [k \in SettingKeys |-> NoValue], reopened |-> FALSE]

\* Settings.get(key)
settings_get(s, key) ==
    IF s.rows[key] = NoRow THEN DEFAULTS(key) ELSE loads(s.rows[key])

\* a set that keeps the row a key has (INSERT OR IGNORE)
settings_set_keeps(s, key, value) ==
    [s EXCEPT !.rows[key] = IF @ = NoRow THEN dumps(value) ELSE @,
              !.written[key] = value]

\* Settings.set(key, value): INSERT OR REPLACE, commit
settings_set(s, key, value) ==
    [s EXCEPT !.rows[key] = dumps(value), !.written[key] = value]

\* ------------------------------------------------------- the engine's limits
\* download_rate_limit and upload_rate_limit of a new lt.session: 0, unlimited
NoLimits == [dl |-> 0, ul |-> 0]

\* SessionWorker.initialize: a limit goes into the settings pack when positive
initial_limits(c) ==
    [dl |-> IF c.max_download_speed > 0 THEN c.max_download_speed ELSE NoLimits.dl,
     ul |-> IF c.max_upload_speed > 0 THEN c.max_upload_speed ELSE NoLimits.ul]

\* the limits apply_settings and a schedule tick without a matching rule set
settings_limits(c) ==
    [dl |-> IF c.max_download_speed > 0 THEN c.max_download_speed ELSE 0,
     ul |-> IF c.max_upload_speed > 0 THEN c.max_upload_speed ELSE 0]

\* rule.get(key, default)
rule_get(value, default) == IF value = Missing THEN default ELSE value

\* the for loop of _check_bandwidth_schedule: the index of the rule it breaks
\* at, 0 when it runs to the end
RECURSIVE first_rule(_, _, _)
first_rule(rules, current_hour, i) ==
    IF i > Len(rules) THEN 0
    ELSE IF rule_get(rules[i].start, 0) <= current_hour
            /\ current_hour < rule_get(rules[i].end, 24)
    THEN i
    ELSE first_rule(rules, current_hour, i + 1)

\* a schedule tick that applies the last rule that matches
RECURSIVE last_rule(_, _, _)
last_rule(rules, current_hour, i) ==
    IF i > Len(rules) THEN 0
    ELSE LET later == last_rule(rules, current_hour, i + 1)
         IN  IF later # 0 THEN later
             ELSE IF rule_get(rules[i].start, 0) <= current_hour
                     /\ current_hour < rule_get(rules[i].end, 24)
             THEN i
             ELSE 0

check_bandwidth_schedule_last(limits, c, current_hour, sess) ==
    LET schedule == c.bandwidth_schedule
        i == last_rule(schedule.rules, current_hour, 1)
    IN  IF ~schedule.present \/ ~schedule.enabled THEN limits
        ELSE IF ~sess THEN limits
        ELSE IF i # 0
        THEN [dl |-> rule_get(schedule.rules[i].dl, 0), ul |-> rule_get(schedule.rules[i].ul, 0)]
        ELSE settings_limits(c)

\* SessionWorker._check_bandwidth_schedule: the engine limits it leaves
check_bandwidth_schedule_body(limits, c, current_hour, sess) ==
    LET schedule == c.bandwidth_schedule
        i == first_rule(schedule.rules, current_hour, 1)
    IN  IF ~schedule.present \/ ~schedule.enabled THEN limits
        ELSE IF ~sess THEN limits
        ELSE IF i # 0
        THEN [dl |-> rule_get(schedule.rules[i].dl, 0), ul |-> rule_get(schedule.rules[i].ul, 0)]
        ELSE settings_limits(c)

\* ------------------------------------------------------------ engine alerts
\* An alert names the torrent it was posted for (info_hash).  expired: by the
\* time the alert is dispatched the torrent object behind alert.handle is
\* gone, which can only be so once the engine was told to remove the torrent.
Alert(type, h, expired) ==
    [type |-> type, info_hash |-> h, expired |-> expired, address |-> NoAddress,
     peer_id |-> <<>>, client |-> "", listed |-> FALSE]

PeerAlert(h, a, pid, client, listed) ==
    [type |-> "peer_connect", info_hash |-> h, expired |-> FALSE, address |-> a,
     peer_id |-> pid, client |-> client, listed |-> listed]

\* str(alert.handle.info_hash())
AlertHash(alert) == IF alert.expired THEN ZeroHash ELSE alert.info_hash

\* ------------------------------------------------- the worker's handler bodies
\* A handler body maps the state it touches (w) to the state it leaves:
\*   torrents, resume_db, eng, ip_filter, engine_filter, emitted, and exc,
\*   which is TRUE while an exception is propagating out of the body.
Emit(w, sig) == [w EXCEPT !.emitted = Append(@, sig)]

\* SessionWorker.remove_torrent.  session.remove_torrent raises on a handle
\* that is not valid, before the table is touched.
remove_torrent(w, info_hash, delete_files, sess, dbopen) ==
    IF ~Has(w.torrents, info_hash) \/ ~sess THEN w
    ELSE LET torrent == Get(w.torrents, info_hash) IN
         IF ~HandleValid(w.eng, torrent.handle) THEN [w EXCEPT !.exc = TRUE]
         ELSE Emit([w EXCEPT !.eng[torrent.handle] =
                                [NoTorrent EXCEPT !.files = IF delete_files THEN "deleted"
                                                            ELSE "kept"],
                             !.torrents = Del(@, info_hash),
                             !.resume_db = IF dbopen THEN DeleteRow(@, info_hash) ELSE @],
                   Signal("torrent_removed", info_hash))

\* SessionWorker._handle_save_resume_data (the name and save_path columns
\* follow the same pattern as category and are left out); resume_data is the
\* torrent the serialized parameters describe
handle_save_resume_data(w, alert, dbopen, time) ==
    IF ~dbopen THEN w
    ELSE LET info_hash == AlertHash(alert)
             known == Has(w.torrents, info_hash)
             torrent == Get(w.torrents, info_hash)
         IN  [w EXCEPT !.resume_db =
                 Upsert(@, [key |-> info_hash,
                            resume_data |-> alert.info_hash,
                            category |-> IF known THEN torrent.category ELSE "",
                            tags |-> JsonDumps(IF known THEN torrent.tags ELSE <<>>),
                            added_time |-> IF known THEN torrent.added_time ELSE time])]

\* a finished handler that applies on_complete_action and no ratio limit
on_torrent_finished_any_ratio(w, alert, c, sess, dbopen) ==
    LET info_hash == AlertHash(alert)
        w1 == Emit(w, Signal("torrent_finished", info_hash))
    IN  IF ~Has(w.torrents, info_hash) THEN w1
        ELSE IF c.on_complete_action = 2
        THEN remove_torrent(w1, info_hash, FALSE, sess, dbopen)
        ELSE IF c.on_complete_action = 1
        THEN [w1 EXCEPT !.eng = pause(@, Get(w.torrents, info_hash).handle)]
        ELSE w1

\* a finished handler whose on_complete_action 2 also deletes the files
on_torrent_finished_deleting(w, alert, c, sess, dbopen) ==
    LET info_hash == AlertHash(alert)
        w1 == Emit(w, Signal("torrent_finished", info_hash))
        torrent == Get(w.torrents, info_hash)
        w2 == IF c.on_complete_action = 1
              THEN [w1 EXCEPT !.eng = pause(@, torrent.handle)]
              ELSE w1
    IN  IF ~Has(w.torrents, info_hash) THEN w1
        ELSE IF c.on_complete_action = 2
        THEN remove_torrent(w1, info_hash, TRUE, sess, dbopen)
        ELSE IF c.max_ratio > 0 /\ torrent.snap.ratio >= c.max_ratio
        THEN (IF c.ratio_action = 0 THEN [w2 EXCEPT !.eng = pause(@, torrent.handle)]
              ELSE IF c.ratio_action = 1
              THEN remove_torrent(w2, info_hash, FALSE, sess, dbopen)
              ELSE w2)
        ELSE w2

\* SessionWorker._on_torrent_finished
on_torrent_finished(w, alert, c, sess, dbopen) ==
    LET info_hash == AlertHash(alert)
        w1 == Emit(w, Signal("torrent_finished", info_hash))
        torrent == Get(w.torrents, info_hash)
        w2 == IF c.on_complete_action = 1
              THEN [w1 EXCEPT !.eng = pause(@, torrent.handle)]
              ELSE w1
    IN  IF ~Has(w.torrents, info_hash) THEN w1
        ELSE IF c.on_complete_action = 2
        THEN remove_torrent(w1, info_hash, FALSE, sess, dbopen)
        ELSE IF c.max_ratio > 0 /\ torrent.snap.ratio >= c.max_ratio
        THEN (IF c.ratio_action = 0 THEN [w2 EXCEPT !.eng = pause(@, torrent.handle)]
              ELSE IF c.ratio_action = 1
              THEN remove_torrent(w2, info_hash, FALSE, sess, dbopen)
              ELSE w2)
        ELSE w2

\* SessionWorker._on_peer_connect; get_peer_info raises on a handle that is
\* not valid and the body swallows it; alert.listed: the peer is in the list
on_peer_connect(w, alert, pf) ==
    LET verdict == check_peer(pf, alert.peer_id, alert.client, alert.address)
        f == add_rule(w.ip_filter, alert.address, alert.address, 1)
    IN  IF ~pf.enabled THEN w
        ELSE IF alert.expired \/ ~HandleValid(w.eng, alert.info_hash) THEN w
        ELSE IF ~alert.listed THEN w
        ELSE IF verdict[1]
        THEN Emit([w EXCEPT !.ip_filter = f, !.engine_filter = f], BanSignal(alert.address))
        ELSE w

\* the body of the try block of _process_alerts for one alert
dispatch(w, alert, c, pf, sess, dbopen, time) ==
    CASE alert.type = "torrent_finished" -> on_torrent_finished(w, alert, c, sess, dbopen)
      [] alert.type = "torrent_error" -> Emit(w, Signal("torrent_error", AlertHash(alert)))
      [] alert.type = "metadata_received" -> Emit(w, Signal("torrent_metadata", AlertHash(alert)))
      [] alert.type = "save_resume_data" -> handle_save_resume_data(w, alert, dbopen, time)
      [] alert.type = "save_resume_data_failed" -> w
      [] alert.type = "peer_connect" -> on_peer_connect(w, alert, pf)
      [] OTHER -> w

\* a drain whose first failing handler ends the loop
RECURSIVE dispatch_all_stops(_, _, _, _, _, _, _)
dispatch_all_stops(w, as, c, pf, sess, dbopen, time) ==
    IF as = <<>> THEN w
    ELSE LET w1 == dispatch(w, Head(as), c, pf, sess, dbopen, time)
         IN  IF w1.exc THEN [w1 EXCEPT !.exc = FALSE]
             ELSE dispatch_all_stops(w1, Tail(as), c, pf, sess, dbopen, time)

\* for alert in alerts: try: ... except Exception: log
RECURSIVE dispatch_all(_, _, _, _, _, _, _)
dispatch_all(w, as, c, pf, sess, dbopen, time) ==
    IF as = <<>> THEN w
    ELSE dispatch_all([dispatch(w, Head(as), c, pf, sess, dbopen, time) EXCEPT !.exc = FALSE],
                      Tail(as), c, pf, sess, dbopen, time)

\* ------------------------------------------------------------ bookkeeping
\* what the observer has been told so far, folded over the emitted signals
AnnouncedAfter(A, es) ==
    A \cup {es[i].info_hash : i \in {j \in DOMAIN es : es[j].type = "torrent_added"}}

RECURSIVE GoneAfter(_, _)
GoneAfter(G, es) ==
    IF es = <<>> THEN G
    ELSE GoneAfter(CASE Head(es).type = "torrent_removed" -> G \cup {Head(es).info_hash}
                     [] Head(es).type = "torrent_added" -> G \ {Head(es).info_hash}
                     [] OTHER -> G,
                   Tail(es))

BannedAfter(B, es) ==
    B \cup {es[i].address : i \in {j \in DOMAIN es : es[j].type = "peer_banned"}}

SeenAfter(S, e) == S \cup {h \in Hashes : e[h].st # "none"}

\* no stats tick is running
\* looked: the key of the Torrent that _update_stats took from the table for
\* the detail data
IdleTick ==
    [pc |-> "idle", used |-> 0, idx |-> 0, snaps |-> <<>>, calls |-> 0, looked |-> NoHash]

\* the position of a dict iterator once entries it has passed are deleted
IterAfter(idx, before, after) ==
    idx - Cardinality({i \in 1..idx : i \in DOMAIN before /\ before[i].key \notin Keys(after)})

W0 ==
    [torrents |-> torrents, resume_db |-> resume_db, eng |-> eng,
     ip_filter |-> ip_filter, engine_filter |-> engine_filter,
     emitted |-> <<>>, exc |-> FALSE, batch |-> <<>>]

Commit(w) ==
    /\ torrents' = w.torrents
    /\ resume_db' = w.resume_db
    /\ eng' = w.eng
    /\ ip_filter' = w.ip_filter
    /\ engine_filter' = w.engine_filter
    /\ emitted' = w.emitted
    /\ batch' = w.batch
    /\ tick' = IF tick.pc = "idle" THEN tick
               ELSE [tick EXCEPT !.idx = IterAfter(@, torrents, w.torrents),
                                 !.calls = @ + 1]
    /\ engine_seen' = SeenAfter(engine_seen, w.eng)
    /\ announced' = AnnouncedAfter(announced, w.emitted)
    /\ gone' = GoneAfter(gone, w.emitted)
    /\ banned' = BannedAfter(banned, w.emitted)

\* a step that emits nothing
Quiet ==
    /\ emitted' = <<>>
    /\ batch' = <<>>
    /\ UNCHANGED <<announced, gone, banned, tick>>

\* text of a line of the blocklist file: str.strip, "in", rsplit(":", 1)[1]
\* and split("-", 1)
RECURSIVE lstrip(_)
lstrip(text) ==
    IF text # <<>> /\ Head(text) = " " THEN lstrip(Tail(text)) ELSE text

RECURSIVE rstrip(_)
rstrip(text) ==
    IF text # <<>> /\ text[Len(text)] = " " THEN rstrip(SubSeq(text, 1, Len(text) - 1))
    ELSE text

strip(text) == rstrip(lstrip(text))

Contains(text, ch) == \E i \in DOMAIN text : text[i] = ch

Find(text, ch) == CHOOSE i \in DOMAIN text : text[i] = ch /\ \A j \in 1..(i - 1) : text[j] # ch
RFind(text, ch) ==
    CHOOSE i \in DOMAIN text : text[i] = ch /\ \A j \in (i + 1)..Len(text) : text[j] # ch

AfterLast(text, ch) == SubSeq(text, RFind(text, ch) + 1, Len(text))
Before(text, ch) == SubSeq(text, 1, Find(text, ch) - 1)
After(text, ch) == SubSeq(text, Find(text, ch) + 1, Len(text))

\* the address a text names to lt.ip_filter.add_rule, NoAddress when the
\* text is no address and add_rule raises; the model's addresses are written
\* with one digit
make_address(text) ==
    IF text = <<"1">> THEN 1 ELSE IF text = <<"2">> THEN 2 ELSE NoAddress

\* the for loop of _load_ip_blocklist over the lines that are left: the
\* filter object with the rules added so far, their count, and whether
\* add_rule raised
RECURSIVE blocklist_rules(_, _, _)
blocklist_rules(f, lines, count) ==
    IF lines = <<>> THEN [filter |-> f, count |-> count, raised |-> FALSE]
    ELSE LET line == strip(Head(lines))
             named == Contains(line, ":") /\ Contains(line, "-")
             ip_range == IF named THEN strip(AfterLast(line, ":")) ELSE line
             start == make_address(strip(Before(ip_range, "-")))
             end == make_address(strip(After(ip_range, "-")))
         IN  IF line = <<>> \/ Head(line) = "#" \/ ~Contains(ip_range, "-")
             THEN blocklist_rules(f, Tail(lines), count)
             ELSE IF start = NoAddress \/ end = NoAddress
             THEN [filter |-> f, count |-> count, raised |-> TRUE]
             ELSE blocklist_rules(add_rule(f, start, end, 1), Tail(lines), count + 1)

\* a reload that starts from an empty filter object
load_ip_blocklist_fresh(w, c) ==
    LET loaded == blocklist_rules(EmptyFilter, c.ip_blocklist, 0)
    IN  IF loaded.raised THEN [w EXCEPT !.ip_filter = loaded.filter]
        ELSE IF loaded.count > 0
        THEN [w EXCEPT !.ip_filter = loaded.filter, !.engine_filter = loaded.filter]
        ELSE w

\* SessionWorker._load_ip_blocklist: the rules go into the worker's filter
\* object; it is installed once the loop is through, and only when the file
\* held at least one range.  An exception of add_rule ends the loop and is
\* logged.
load_ip_blocklist(w, c) ==
    LET loaded == blocklist_rules(w.ip_filter, c.ip_blocklist, 0)
    IN  IF loaded.raised THEN [w EXCEPT !.ip_filter = loaded.filter]
        ELSE IF loaded.count > 0
        THEN [w EXCEPT !.ip_filter = loaded.filter, !.engine_filter = loaded.filter]
        ELSE w

\* SessionWorker._load_resume_data: one Torrent per row, keyed by the hash
\* of the handle the engine returns; no signal is emitted
RECURSIVE load_resume_data(_, _, _)
load_resume_data(w, rows, time) ==
    IF rows = <<>> THEN w
    ELSE LET row == Head(rows)
             handle == row.resume_data
             e == IF w.eng[handle].st = "none"
                  THEN [w.eng EXCEPT ![handle] = NewEngineTorrent]
                  ELSE w.eng
             torrent == NewTorrent(handle, row.category, JsonLoads(row.tags),
                                   IF row.added_time # 0 THEN row.added_time ELSE time, e)
         IN  load_resume_data([w EXCEPT !.eng = e, !.torrents = Put(@, torrent)],
                              Tail(rows), time)

\* ----------------------------------------------------------------- Init
NoEngine == [h \in Hashes |-> NoTorrent]
NoPending == [h \in Hashes |-> 0]

\* SessionWorker.__init__ in a process that has not opened the store yet
InitWorker ==
    /\ phase = "new"
    /\ cfg = DefaultCfg
    /\ session = FALSE
    /\ torrents = <<>>
    /\ resume_db = NoRows
    /\ db_open = FALSE
    /\ ip_filter = EmptyFilter
    /\ peer_filter = NewPeerFilter
    /\ focused_hash = NoHash
    /\ timers = {}
    /\ eng = NoEngine
    /\ engine_filter = EmptyFilter
    /\ engine_seen = {}
    /\ pending = NoPending
    /\ outstanding = 0
    /\ elapsed = 0
    /\ now = 1
    /\ emitted = <<>>
    /\ announced = {}
    /\ gone = {}
    /\ banned = {}
    /\ at_shutdown = <<>>
    /\ batch = <<>>
    /\ tick = IdleTick
    /\ session_history = [dl |-> <<>>, ul |-> <<>>]
    /\ engine_limits = NoLimits
    /\ filter = NewPeerFilter
    /\ last_check = NoCheck
    /\ rss = NewRSSMonitor
    /\ settings = NewSettings

\* the first run: there is no resume.db in the data directory
Init == InitWorker /\ schema = NewDatabase

\* ------------------------------------------------------------- lifecycle
\* SessionWorker.initialize, run once by thread.started in a fresh process:
\* a new session, a new filter object, the Resume Store of the data directory
initialize ==
    /\ phase \in {"new", "stopped"}
    /\ LET fresh == [torrents |-> <<>>, resume_db |-> resume_db, eng |-> NoEngine,
                     ip_filter |-> EmptyFilter, engine_filter |-> EmptyFilter,
                     emitted |-> <<>>, exc |-> FALSE, batch |-> <<>>]
           w1 == load_ip_blocklist(fresh, cfg)
           w2 == load_resume_data(w1, resume_db, now)
           w3 == Emit(w2, Signal("started", NoHash))
       IN  /\ torrents' = w3.torrents
           /\ eng' = w3.eng
           /\ ip_filter' = w3.ip_filter
           /\ engine_filter' = w3.engine_filter
           /\ emitted' = w3.emitted
           /\ batch' = w3.batch
           /\ engine_seen' = SeenAfter({}, w3.eng)
    /\ tick' = IdleTick
    /\ phase' = "running"
    /\ session' = TRUE
    /\ db_open' = TRUE
    /\ schema' = init_resume_db(schema)
    /\ session_history' = [dl |-> <<>>, ul |-> <<>>]
    /\ engine_limits' = initial_limits(cfg)
    /\ UNCHANGED <<filter, last_check, rss, settings>>
    /\ peer_filter' = configure(NewPeerFilter, cfg)
    /\ focused_hash' = NoHash
    /\ timers' = TimerNames
    /\ pending' = NoPending
    /\ outstanding' = 0
    /\ elapsed' = 0
    /\ announced' = {}
    /\ gone' = {}
    /\ banned' = {}
    /\ at_shutdown' = <<>>
    /\ UNCHANGED <<cfg, resume_db, now>>

ValidKeys(t, e) == {t[i].handle : i \in {j \in DOMAIN t : HandleValid(e, t[j].handle)}}

\* save_resume_data() on every torrent whose handle is valid
request_saves(p, t, e) ==
    [h \in Hashes |-> IF h \in ValidKeys(t, e) THEN p[h] + 1 ELSE p[h]]

CanRequestSavesBelow(cap) == \A h \in ValidKeys(torrents, eng) : pending[h] < cap
CanRequestSaves == CanRequestSavesBelow(MaxPending)

\* the alerts pop_alerts may return: about torrents the engine has been
\* given, and no more answers to save requests than are owed
TorrentAlertTypes == {"torrent_finished", "torrent_error", "metadata_received"}
SaveAlertTypes == {"save_resume_data", "save_resume_data_failed"}

AlertInputs(types, peers) ==
    {a \in {Alert(t, h, x) : t \in types, h \in engine_seen, x \in BOOLEAN} :
        a.expired => eng[a.info_hash].st = "none"}
    \cup {PeerAlert(p.info_hash, p.address, p.peer_id, p.client, p.listed) :
             p \in {q \in peers : q.info_hash \in engine_seen}}

AcksIn(b, h) ==
    Cardinality({i \in DOMAIN b : b[i].type \in SaveAlertTypes /\ b[i].info_hash = h})

Batches(types, peers) ==
    {b \in UNION {[1..n -> AlertInputs(types, peers)] : n \in 0..MaxAlerts} :
        \A h \in Hashes : AcksIn(b, h) <= pending[h]}

Answered(p, b) == [h \in Hashes |-> p[h] - AcksIn(b, h)]

\* SessionWorker.shutdown up to the head of the drain loop of
\* _save_all_resume_data_sync
shutdown_begin_upto(cap) ==
    /\ phase = "running"
    /\ tick.pc = "idle"
    /\ CanRequestSavesBelow(cap)
    /\ phase' = "stopping"
    /\ timers' = {}
    /\ pending' = request_saves(pending, torrents, eng)
    /\ outstanding' = Cardinality(ValidKeys(torrents, eng))
    /\ elapsed' = 0
    /\ at_shutdown' = torrents
    /\ Quiet
    /\ UNCHANGED <<schema, settings, rss, filter, last_check, session_history, engine_limits,
                   cfg, session, torrents, resume_db, db_open, ip_filter, peer_filter,
                   focused_hash, eng, engine_filter, engine_seen, now>>

shutdown_begin == shutdown_begin_upto(MaxPending)

\* one pass of the for loop of _save_all_resume_data_sync over popped alerts:
\* <<state, outstanding>>
RECURSIVE drain_batch(_, _, _, _, _)
drain_batch(w, n, as, dbopen, time) ==
    IF as = <<>> THEN <<w, n>>
    ELSE IF Head(as).type = "save_resume_data"
    THEN drain_batch(handle_save_resume_data(w, Head(as), dbopen, time), n - 1,
                     Tail(as), dbopen, time)
    ELSE IF Head(as).type = "save_resume_data_failed"
    THEN drain_batch(w, n - 1, Tail(as), dbopen, time)
    ELSE drain_batch(w, n, Tail(as), dbopen, time)

\* a drain loop without its deadline
DrainContinuesForever(n, t) == n > 0

\* while outstanding > 0 and time.time() < timeout
DrainContinues(n, t) == n > 0 /\ t < DrainTicks

\* one iteration of the while loop, up to and including its sleep; time
\* past the deadline is not told apart
shutdown_drain_batch(b) ==
    /\ phase = "stopping"
    /\ DrainContinues(outstanding, elapsed)
    /\ LET r == drain_batch(W0, outstanding, b, db_open, now)
       IN  /\ Commit(r[1])
           /\ outstanding' = r[2]
           /\ elapsed' = IF r[2] > 0 /\ elapsed < DrainTicks THEN elapsed + 1 ELSE elapsed
    /\ pending' = Answered(pending, b)
    /\ UNCHANGED <<schema, settings, rss, filter, last_check, session_history, engine_limits,
                   phase, cfg, session, db_open, peer_filter, focused_hash, timers,
                   now, at_shutdown>>

\* the rest of shutdown once the loop has ended
shutdown_finish ==
    /\ phase = "stopping"
    /\ ~DrainContinues(outstanding, elapsed)
    /\ phase' = "stopped"
    /\ session' = FALSE
    /\ eng' = NoEngine
    /\ engine_seen' = {}
    /\ pending' = NoPending
    /\ engine_filter' = EmptyFilter
    /\ db_open' = FALSE
    /\ torrents' = <<>>
    /\ emitted' = <<Signal("stopped", NoHash)>>
    /\ batch' = <<>>
    /\ UNCHANGED <<schema, settings, rss, filter, last_check, session_history, engine_limits,
                   cfg, resume_db, ip_filter, peer_filter, focused_hash, timers,
                   outstanding, elapsed, now, announced, gone, banned, at_shutdown,
                   tick>>

\* --------------------------------------------------------------- commands
\* the slots run between timer callbacks; while shutdown blocks the worker
\* thread nothing else runs on it
CommandPhase ==
    /\ phase \in {"new", "running", "stopped"}
    /\ tick.pc # "idle" => tick.calls < MaxCalls

Frame == UNCHANGED <<schema, settings, rss, filter, last_check, session_history, engine_limits,
                   phase, cfg, session, db_open, peer_filter, focused_hash, timers,
                     pending, outstanding, elapsed, now, at_shutdown>>

\* an add that replaces the record of a hash the table already holds
add_to_session_overwrites(w, info_hash, category, tags, paused, time) ==
    LET e == IF w.eng[info_hash].st = "none"
             THEN [w.eng EXCEPT ![info_hash] = NewEngineTorrent]
             ELSE w.eng
    IN  Emit([w EXCEPT !.eng = e,
                       !.torrents = Put(@, NewTorrent(info_hash, category, tags, time, e))],
             Signal("torrent_added", info_hash))

\* session.add_torrent(atp) followed by the table insert, shared by both adds.
\* A hash the engine already runs yields the existing handle.
add_to_session(w, info_hash, category, tags, paused, time) ==
    LET e == IF w.eng[info_hash].st = "none"
             THEN [w.eng EXCEPT ![info_hash] =
                      [NewEngineTorrent EXCEPT !.paused = paused, !.auto_managed = ~paused]]
             ELSE w.eng
        torrent == NewTorrent(info_hash, category, tags, time, e)
    IN  IF ~Has(w.torrents, info_hash)
        THEN Emit([w EXCEPT !.eng = e, !.torrents = Put(@, torrent)],
                  Signal("torrent_added", info_hash))
        ELSE [w EXCEPT !.eng = e]

\* SessionWorker.add_torrent_file (save_path and sequential do not reach
\* the table, the store or the signals)
add_torrent_file_body(w, filepath, category, tags_json, paused, sess, time) ==
    IF ~sess THEN w
    ELSE IF tags_json # "" /\ ~JsonValid(tags_json) THEN w
    ELSE IF ~FileReadable(filepath) THEN w
    ELSE add_to_session(w, FileInfoHash(filepath), category,
                        IF tags_json # "" THEN JsonLoads(tags_json) ELSE <<>>, paused, time)

add_torrent_file(filepath, category, tags_json, paused) ==
    /\ CommandPhase
    /\ Commit(add_torrent_file_body(W0, filepath, category, tags_json, paused, session, now))
    /\ Frame

\* an add_magnet that does not ask whether there is a session
add_magnet_body_unguarded(w, uri, category, tags_json, paused, sess, time) ==
    IF uri = "" \/ ~StartsWithMagnet(uri) THEN w
    ELSE IF tags_json # "" /\ ~JsonValid(tags_json) THEN w
    ELSE IF ~MagnetParses(uri) THEN w
    ELSE add_to_session(w, MagnetInfoHash(uri), category,
                        IF tags_json # "" THEN JsonLoads(tags_json) ELSE <<>>, paused, time)

\* SessionWorker.add_magnet
add_magnet_body(w, uri, category, tags_json, paused, sess, time) ==
    IF ~sess THEN w
    ELSE IF uri = "" \/ ~StartsWithMagnet(uri) THEN w
    ELSE IF tags_json # "" /\ ~JsonValid(tags_json) THEN w
    ELSE IF ~MagnetParses(uri) THEN w
    ELSE add_to_session(w, MagnetInfoHash(uri), category,
                        IF tags_json # "" THEN JsonLoads(tags_json) ELSE <<>>, paused, time)

add_magnet(uri, category, tags_json, paused) ==
    /\ CommandPhase
    /\ Commit(add_magnet_body(W0, uri, category, tags_json, paused, session, now))
    /\ Frame

\* the remove_torrent slot called as a command
remove_torrent_cmd(info_hash, delete_files) ==
    /\ CommandPhase
    /\ Commit([remove_torrent(W0, info_hash, delete_files, session, db_open)
                  EXCEPT !.exc = FALSE])
    /\ Frame

\* the slots that look one torrent up and call one method of it.  Torrent.pause,
\* resume and force_resume set the flags the engine reports back; the engine
\* state the other methods set (recheck, reannounce, limits, queue position,
\* sequential, file priority, trackers) is not read back by any handler.
\* request_magnet_uri answers with magnet_uri_ready when the handle is valid.
TorrentCommands ==
    {"pause_torrent", "resume_torrent", "force_resume", "force_recheck",
     "force_reannounce", "set_torrent_speed_limit", "queue_action", "set_sequential",
     "set_file_priority", "add_tracker", "remove_tracker", "request_magnet_uri"}

\* the same slots without the lookup in the table
torrent_command_unchecked(w, cmd, info_hash) ==
    CASE cmd = "pause_torrent" -> [w EXCEPT !.eng = pause(@, info_hash)]
      [] cmd = "request_magnet_uri" -> Emit(w, Signal("magnet_uri_ready", info_hash))
      [] OTHER -> w

torrent_command_body(w, cmd, info_hash) ==
    IF ~Has(w.torrents, info_hash) THEN w
    ELSE LET t == Get(w.torrents, info_hash)
             valid == HandleValid(w.eng, t.handle)
         IN  CASE cmd = "pause_torrent" -> [w EXCEPT !.eng = pause(@, t.handle)]
               [] cmd = "resume_torrent" /\ valid ->
                    [w EXCEPT !.eng[t.handle].auto_managed = TRUE,
                              !.eng[t.handle].paused = FALSE]
               [] cmd = "force_resume" /\ valid ->
                    [w EXCEPT !.eng[t.handle].auto_managed = FALSE,
                              !.eng[t.handle].paused = FALSE]
               [] cmd = "request_magnet_uri" /\ valid ->
                    Emit(w, Signal("magnet_uri_ready", info_hash))
               [] OTHER -> w

torrent_command(cmd, info_hash) ==
    /\ CommandPhase
    /\ Commit(torrent_command_body(W0, cmd, info_hash))
    /\ Frame

\* SessionWorker.pause_all and resume_all: the method of every Torrent of the
\* table, in table order
RECURSIVE each_torrent(_, _, _)
each_torrent(w, cmd, keys) ==
    IF keys = <<>> THEN w
    ELSE each_torrent(torrent_command_body(w, cmd, Head(keys)), cmd, Tail(keys))

pause_all ==
    /\ CommandPhase
    /\ Commit(each_torrent(W0, "pause_torrent", [i \in DOMAIN torrents |-> torrents[i].key]))
    /\ Frame

resume_all ==
    /\ CommandPhase
    /\ Commit(each_torrent(W0, "resume_torrent", [i \in DOMAIN torrents |-> torrents[i].key]))
    /\ Frame

\* SessionWorker.set_focused_torrent
set_focused_torrent(info_hash) ==
    /\ CommandPhase
    /\ focused_hash' = info_hash
    /\ Quiet
    /\ UNCHANGED <<schema, settings, rss, filter, last_check, session_history, engine_limits,
                   phase, cfg, session, torrents, resume_db, db_open, ip_filter,
                   peer_filter, timers, eng, engine_filter, engine_seen, pending,
                   outstanding, elapsed, now, at_shutdown>>

\* SessionWorker.apply_settings
apply_settings(c) ==
    /\ CommandPhase
    /\ cfg' = c
    /\ IF session
       THEN /\ peer_filter' = configure(peer_filter, c)
            /\ Commit(load_ip_blocklist(W0, c))
       ELSE /\ peer_filter' = peer_filter
            /\ Commit(W0)
    /\ engine_limits' = IF session THEN settings_limits(c) ELSE engine_limits
    /\ UNCHANGED <<schema, settings, rss, filter, last_check, session_history,
                   phase, session, db_open, focused_hash, timers, pending,
                   outstanding, elapsed, now, at_shutdown>>

\* -------------------------------------------------------- timer callbacks
\* a timer callback runs on the worker thread once the one before it is done
TimerFires(name) == phase = "running" /\ name \in timers /\ tick.pc = "idle"

\* SessionWorker._process_alerts: pop the whole queue, dispatch in order
process_alerts_body(w, as, c, pf, sess, dbopen, time) ==
    IF ~sess THEN w
    ELSE dispatch_all([w EXCEPT !.batch = as], as, c, pf, sess, dbopen, time)

process_alerts(b) ==
    /\ TimerFires("alert")
    /\ Commit(process_alerts_body(W0, b, cfg, peer_filter, session, db_open, now))
    /\ pending' = Answered(pending, b)
    /\ UNCHANGED <<schema, settings, rss, filter, last_check, session_history, engine_limits,
                   phase, cfg, session, db_open, peer_filter, focused_hash, timers,
                   outstanding, elapsed, now, at_shutdown>>

\* SessionWorker._update_stats: one snapshot per table entry, cached in the
\* Torrent, then stats_updated, then detail_updated for the focused torrent
take_snapshots(t, e) == [i \in DOMAIN t |-> snapshot(t[i], e)]

update_stats_body(w, focus) ==
    LET snaps == take_snapshots(w.torrents, w.eng)
        t1 == [i \in DOMAIN w.torrents |-> [w.torrents[i] EXCEPT !.snap = snaps[i]]]
        w1 == Emit([w EXCEPT !.torrents = t1], StatsSignal(snaps, Len(w.torrents)))
    IN  IF focus # NoHash /\ Has(w.torrents, focus)
        THEN Emit(w1, Signal("detail_updated", focus))
        ELSE w1

update_stats ==
    /\ TimerFires("stats")
    /\ session
    /\ Commit(update_stats_body(W0, focused_hash))
    /\ Frame

\* _update_stats with the speed histories it keeps: the rates session.status()
\* reports go into the session lists, and each torrent records the speeds of
\* its snapshot (those of the session while it is the one torrent running,
\* none once its status cannot be read)
update_stats_with_history(dl_rate, ul_rate) ==
    /\ TimerFires("stats")
    /\ session
    /\ session_history' = [dl |-> record(session_history.dl, dl_rate, max_session_history),
                           ul |-> record(session_history.ul, ul_rate, max_session_history)]
    /\ LET w == update_stats_body(W0, focused_hash)
           recorded == [i \in DOMAIN w.torrents |->
                           IF w.torrents[i].snap.valid
                           THEN record_speed(w.torrents[i], dl_rate, ul_rate)
                           ELSE record_speed(w.torrents[i], 0, 0)]
       IN  Commit([w EXCEPT !.torrents = recorded])
    /\ UNCHANGED <<schema, settings, rss, filter, last_check, engine_limits, phase, cfg, session, db_open,
                   peer_filter, focused_hash, timers,
                   pending, outstanding, elapsed, now, at_shutdown>>

\* _update_stats step by step, as it runs while another thread calls slots.
\* The for loop opens an iterator over _torrents.values().
stats_begin ==
    /\ TimerFires("stats")
    /\ session
    /\ tick' = [IdleTick EXCEPT !.pc = "iterating", !.used = Len(torrents)]
    /\ emitted' = <<>>
    /\ batch' = <<>>
    /\ UNCHANGED <<schema, settings, rss, filter, last_check, session_history, engine_limits,
                   phase, cfg, session, torrents, resume_db, db_open, ip_filter,
                   peer_filter, focused_hash, timers, eng, engine_filter, engine_seen,
                   pending, outstanding, elapsed, now, announced, gone, banned,
                   at_shutdown>>

\* one next() of the iterator and the loop body: RuntimeError when the dict
\* changed size since the loop began (the tick ends without a signal), the
\* end of the loop, or one snapshot
stats_next ==
    /\ tick.pc = "iterating"
    /\ IF Len(torrents) # tick.used
       THEN /\ tick' = IdleTick
            /\ torrents' = torrents
       ELSE IF tick.idx >= Len(torrents)
       THEN /\ tick' = [tick EXCEPT !.pc = "emitting"]
            /\ torrents' = torrents
       ELSE LET snap == snapshot(torrents[tick.idx + 1], eng)
            IN  /\ torrents' = [torrents EXCEPT ![tick.idx + 1].snap = snap]
                /\ tick' = [tick EXCEPT !.idx = @ + 1, !.snaps = Append(@, snap)]
    /\ emitted' = <<>>
    /\ batch' = <<>>
    /\ UNCHANGED <<schema, settings, rss, filter, last_check, session_history, engine_limits,
                   phase, cfg, session, resume_db, db_open, ip_filter, peer_filter,
                   focused_hash, timers, eng, engine_filter, engine_seen, pending,
                   outstanding, elapsed, now, announced, gone, banned, at_shutdown>>

\* SessionStats(torrent_count=len(self._torrents), torrents=snapshots), the
\* emit of stats_updated, and the lookup of the focused torrent
stats_emit ==
    /\ tick.pc = "emitting"
    /\ tick' = IF focused_hash # NoHash /\ Has(torrents, focused_hash)
               THEN [tick EXCEPT !.pc = "detail", !.looked = focused_hash]
               ELSE IdleTick
    /\ emitted' = <<StatsSignal(tick.snaps, Len(torrents))>>
    /\ batch' = <<>>
    /\ UNCHANGED <<schema, settings, rss, filter, last_check, session_history, engine_limits,
                   phase, cfg, session, torrents, resume_db, db_open, ip_filter,
                   peer_filter, focused_hash, timers, eng, engine_filter, engine_seen,
                   pending, outstanding, elapsed, now, announced, gone, banned,
                   at_shutdown>>

\* DetailData(info_hash=self._focused_hash, files=t.get_files(), ...) of the
\* Torrent that was looked up, and the emit of detail_updated; the getters
\* of Torrent catch what the handle raises
stats_detail ==
    /\ tick.pc = "detail"
    /\ tick' = IdleTick
    /\ emitted' = <<Signal("detail_updated", focused_hash)>>
    /\ batch' = <<>>
    /\ UNCHANGED <<schema, settings, rss, filter, last_check, session_history, engine_limits,
                   phase, cfg, session, torrents, resume_db, db_open, ip_filter,
                   peer_filter, focused_hash, timers, eng, engine_filter, engine_seen,
                   pending, outstanding, elapsed, now, announced, gone, banned,
                   at_shutdown>>

\* SessionWorker._save_all_resume_data
save_all_resume_data_upto(cap) ==
    /\ TimerFires("save")
    /\ CanRequestSavesBelow(cap)
    /\ pending' = request_saves(pending, torrents, eng)
    /\ Quiet
    /\ UNCHANGED <<schema, settings, rss, filter, last_check, session_history, engine_limits,
                   phase, cfg, session, torrents, resume_db, db_open, ip_filter,
                   peer_filter, focused_hash, timers, eng, engine_filter, engine_seen,
                   outstanding, elapsed, now, at_shutdown>>

save_all_resume_data == save_all_resume_data_upto(MaxPending)

\* ------------------------------------------------------------ the engine
EngineQuiet ==
    /\ emitted' = <<>>
    /\ batch' = <<>>
    /\ UNCHANGED <<schema, settings, rss, filter, last_check, session_history, engine_limits,
                   phase, cfg, session, torrents, resume_db, db_open, ip_filter,
                   peer_filter, focused_hash, timers, engine_filter, engine_seen,
                   pending, outstanding, elapsed, now, announced, gone, banned,
                   at_shutdown, tick>>

\* the handle the worker holds for h stops being valid ("invalid"), or its
\* status query starts or stops raising
EngineFault(h, st) ==
    /\ session
    /\ eng[h].st \in {"ok", "throws"}
    /\ st \in {"ok", "throws", "invalid"}
    /\ eng[h].st # st
    /\ eng' = [eng EXCEPT ![h].st = st]
    /\ EngineQuiet

\* upload progresses: the share ratio of a torrent passes 2.0
EngineTransfer(h) ==
    /\ session
    /\ eng[h].st = "ok"
    /\ eng[h].ratio = 0
    /\ eng' = [eng EXCEPT ![h].ratio = 2]
    /\ EngineQuiet

\* the engine's view of a running torrent changes: error code, state, download
\* rate in B/s and number of connected seeds
DownloadRates == {0, 1023, 1024}
SeedCounts == {0, 1}
EngineStatus(h, errc, state, rate, seeds) ==
    /\ session
    /\ eng[h].st = "ok"
    /\ eng' = [eng EXCEPT ![h].errc = errc, ![h].state = state,
                          ![h].download_rate = rate, ![h].num_seeds = seeds]
    /\ eng' # eng
    /\ EngineQuiet

\* queueing: the engine pauses or starts a torrent that is auto-managed
EngineQueue(h) ==
    /\ session
    /\ HandleValid(eng, h)
    /\ eng[h].auto_managed
    /\ eng' = [eng EXCEPT ![h].paused = ~@]
    /\ EngineQuiet

\* time.time() advances
AdvanceClock ==
    /\ now < MaxClock
    /\ now' = now + 1
    /\ emitted' = <<>>
    /\ batch' = <<>>
    /\ UNCHANGED <<schema, settings, rss, filter, last_check, session_history, engine_limits,
                   phase, cfg, session, torrents, resume_db, db_open, ip_filter,
                   peer_filter, focused_hash, timers, eng, engine_filter, engine_seen,
                   pending, outstanding, elapsed, announced, gone, banned, at_shutdown,
                   tick>>

\* the peers a peer_connect alert may be about
Peers ==
    { [info_hash |-> "h1", address |-> 1, peer_id |-> PidXunlei,
       client |-> "qBittorrent/4.5.0", listed |-> TRUE],
      [info_hash |-> "h1", address |-> 1, peer_id |-> PidXunlei,
       client |-> "qBittorrent/4.5.0", listed |-> FALSE],
      [info_hash |-> "h1", address |-> 2, peer_id |-> PidQbit,
       client |-> "thunder 5", listed |-> TRUE],
      [info_hash |-> "h1", address |-> 2, peer_id |-> PidQbit,
       client |-> "qBittorrent/4.5.0", listed |-> TRUE] }

\* ------------------------------------------------------------------- Next
\* Spec: the life of one torrent, h1, through every handler of the worker.
\* The second hash is added in TableSpec, the peers in PeerSpec.
SpecFiles == {"h1.torrent", "junk.torrent"}
SpecUris == {"", "not-a-magnet", "magnet:?xt=junk", "magnet:?xt=urn:btih:h1"}
SpecConfigs == {DefaultCfg, [DefaultCfg EXCEPT !.on_complete_action = 2]}
AllAlertTypes == SaveAlertTypes \cup TorrentAlertTypes

shutdown_drain == \E b \in Batches(AllAlertTypes, {}) : shutdown_drain_batch(b)

Next ==
    \/ initialize
    \/ shutdown_begin
    \/ shutdown_drain
    \/ shutdown_finish
    \/ \E f \in SpecFiles, a \in AddArgs, p \in PausedArgs :
          add_torrent_file(f, a[1], a[2], p)
    \/ \E u \in SpecUris, a \in AddArgs, p \in PausedArgs :
          add_magnet(u, a[1], a[2], p)
    \/ \E h \in Hashes, d \in BOOLEAN : remove_torrent_cmd(h, d)
    \/ \E h \in {NoHash, "h1"} : set_focused_torrent(h)
    \/ \E c \in SpecConfigs : apply_settings(c)
    \/ \E b \in Batches(AllAlertTypes, {}) : process_alerts(b)
    \/ update_stats
    \/ save_all_resume_data
    \/ \E h \in Hashes, st \in {"ok", "throws", "invalid"} : EngineFault(h, st)
    \/ AdvanceClock

Spec == Init /\ [][Next]_vars

\* Once shutdown has been entered the worker thread runs it to its end: the
\* loop keeps iterating and the rest of the slot follows.  That the engine
\* answers is not assumed: the fair step is the iteration that pops nothing.
LiveSpec == Spec /\ WF_vars(shutdown_drain_batch(<<>>)) /\ WF_vars(shutdown_finish)

\* TableSpec: two torrents in the table, with every category and clock value,
\* under the commands and the stats tick
TableNext ==
    \/ initialize
    \/ \E f \in TorrentFiles, a \in AddArgs, p \in PausedArgs :
          add_torrent_file(f, a[1], a[2], p)
    \/ \E u \in MagnetUris, a \in AddArgs, p \in PausedArgs :
          add_magnet(u, a[1], a[2], p)
    \/ \E h \in Hashes, d \in BOOLEAN : remove_torrent_cmd(h, d)
    \/ update_stats
    \/ \E h \in Hashes, st \in {"ok", "throws", "invalid"} : EngineFault(h, st)
    \/ AdvanceClock

TableSpec == Init /\ [][TableNext]_vars

\* PeerSpec: the peers of one torrent, the ban rules and the blocklist
PeerNext ==
    \/ initialize
    \/ shutdown_begin
    \/ \E b \in Batches(SaveAlertTypes, {}) : shutdown_drain_batch(b)
    \/ shutdown_finish
    \/ add_magnet("magnet:?xt=urn:btih:h1", "", "", FALSE)
    \/ remove_torrent_cmd("h1", FALSE)
    \/ \E c \in Configs : apply_settings(c)
    \/ \E b \in Batches({}, Peers) : process_alerts(b)
    \/ EngineFault("h1", "invalid")

PeerSpec == Init /\ [][PeerNext]_vars

\* ThreadSpec: the slots as the main window calls them, directly, so that
\* they run on the GUI thread while a stats tick runs on the worker thread
ThreadNext ==
    \/ initialize
    \/ \E u \in {"magnet:?xt=urn:btih:h1", " magnet:?xt=urn:btih:h2"} :
          add_magnet(u, "", "", FALSE)
    \/ \E h \in Hashes : remove_torrent_cmd(h, FALSE)
    \/ stats_begin
    \/ stats_next
    \/ stats_emit
    \/ stats_detail
    \/ \E h \in Hashes \cup {NoHash} : set_focused_torrent(h)
    \/ \E h \in Hashes : EngineFault(h, "invalid")

ThreadSpec == Init /\ [][ThreadNext]_vars

\* SchemaSpec: the worker started on the resume.db an earlier run left behind:
\* none, one from before schema_version existed, version 1 (with or without
\* a migration that stopped half way), what version 0 turns into here, a
\* complete version 2, and one written by a later release
LimitColumns == {"dl_limit", "ul_limit"}

PriorSchemas ==
    { NewDatabase,
      [tables |-> {"resume_data"}, version |-> <<>>, columns |-> BaseColumns],
      [tables |-> {"schema_version"}, version |-> <<>>, columns |-> {}],
      [tables |-> {"schema_version", "resume_data"}, version |-> <<>>, columns |-> BaseColumns],
      [tables |-> {"schema_version", "resume_data"}, version |-> <<1>>, columns |-> BaseColumns],
      [tables |-> {"schema_version", "resume_data"}, version |-> <<1>>,
       columns |-> BaseColumns \cup {"dl_limit"}],
      [tables |-> {"schema_version", "resume_data"}, version |-> <<2>>, columns |-> BaseColumns],
      [tables |-> {"schema_version", "resume_data"}, version |-> <<2>>,
       columns |-> BaseColumns \cup LimitColumns],
      [tables |-> {"schema_version", "resume_data"}, version |-> <<3>>,
       columns |-> BaseColumns \cup LimitColumns] }

SchemaInit == InitWorker /\ schema \in PriorSchemas

SchemaNext ==
    \/ initialize
    \/ shutdown_begin
    \/ \E b \in Batches(SaveAlertTypes, {}) : shutdown_drain_batch(b)
    \/ shutdown_finish
    \/ add_magnet("magnet:?xt=urn:btih:h1", "", "", FALSE)
    \/ remove_torrent_cmd("h1", FALSE)

SchemaSpec == SchemaInit /\ [][SchemaNext]_vars

\* SaveSpec: the save timer and shutdown asking for resume data while the
\* engine still owes answers
MaxOwed == 2

SaveNext ==
    \/ initialize
    \/ add_magnet("magnet:?xt=urn:btih:h1", "", "", FALSE)
    \/ save_all_resume_data_upto(MaxOwed)
    \/ \E b \in Batches(SaveAlertTypes, {}) : process_alerts(b)
    \/ shutdown_begin_upto(MaxOwed)
    \/ \E b \in Batches(SaveAlertTypes, {}) : shutdown_drain_batch(b)
    \/ shutdown_finish

SaveSpec == Init /\ [][SaveNext]_vars

\* CommandSpec: the per-torrent command slots, for the torrent the table
\* holds and for a hash it does not hold
CommandNext ==
    \/ initialize
    \/ \E a \in AddArgs : add_magnet("magnet:?xt=urn:btih:h1", a[1], a[2], FALSE)
    \/ \E h \in Hashes, d \in BOOLEAN : remove_torrent_cmd(h, d)
    \/ \E c \in TorrentCommands, h \in Hashes : torrent_command(c, h)
    \/ \E h \in Hashes, st \in {"ok", "throws", "invalid"} : EngineFault(h, st)
    \/ update_stats
    \/ AdvanceClock

CommandSpec == Init /\ [][CommandNext]_vars

\* IdleSpec: the commands sent before initialize, while the session runs,
\* and after shutdown; h1 is added paused, h2 running
IdleConfigs == {DefaultCfg, [DefaultCfg EXCEPT !.on_complete_action = 2,
                                               !.ip_blocklist = << <<"2", "-", "2">> >>]}

IdleNext ==
    \/ initialize
    \/ shutdown_begin
    \/ \E b \in Batches(SaveAlertTypes, {}) : shutdown_drain_batch(b)
    \/ shutdown_finish
    \/ \E f \in {"h2.torrent", "junk.torrent"} : add_torrent_file(f, "Movies", "", FALSE)
    \/ \E u \in SpecUris : add_magnet(u, "", "", TRUE)
    \/ \E h \in Hashes, d \in BOOLEAN : remove_torrent_cmd(h, d)
    \/ pause_all
    \/ resume_all
    \/ \E c \in TorrentCommands : torrent_command(c, "h1")
    \/ \E c \in IdleConfigs : apply_settings(c)
    \/ update_stats

IdleSpec == Init /\ [][IdleNext]_vars

\* the schedule timer (60 s); current_hour is datetime.now().hour
check_bandwidth_schedule(current_hour) ==
    /\ TimerFires("schedule")
    /\ engine_limits' = check_bandwidth_schedule_body(engine_limits, cfg, current_hour, session)
    /\ emitted' = <<>>
    /\ batch' = <<>>
    /\ UNCHANGED <<schema, settings, rss, filter, last_check, session_history, phase, cfg,
                   session, torrents, resume_db, db_open, ip_filter, peer_filter,
                   focused_hash, timers, eng, engine_filter, engine_seen, pending,
                   outstanding, elapsed, now, announced, gone, banned, at_shutdown, tick>>

\* ScheduleSpec: settings snapshots with and without a bandwidth schedule
\* (disabled, no rules, rules that overlap, rules that leave hours uncovered,
\* a rule with missing keys) and the schedule timer at every hour of the day
Hours == 0..23
ScheduleRules ==
    { <<>>,
      <<Rule(8, 18, 100, 10)>>,
      <<Rule(8, 18, 100, 10), Rule(12, 22, 200, 20)>>,
      <<Rule(12, 22, 200, 20), Rule(8, 18, 100, 10)>>,
      <<Rule(22, 6, 300, 30), Rule(0, 6, 400, 40)>>,
      <<Rule(Missing, Missing, Missing, 50)>> }
ScheduleConfigs ==
    {[DefaultCfg EXCEPT !.bandwidth_schedule = sch, !.max_download_speed = dl] :
        sch \in {NoSchedule} \cup {Schedule(en, rules) : en \in BOOLEAN, rules \in ScheduleRules},
        dl \in {0, 2048}}

ScheduleNext ==
    \/ initialize
    \/ \E c \in ScheduleConfigs : apply_settings(c)
    \/ \E hr \in Hours : check_bandwidth_schedule(hr)
    \/ shutdown_begin
    \/ shutdown_finish

ScheduleSpec == Init /\ [][ScheduleNext]_vars

\* BlocklistSpec: Initialize and ApplySettings over blocklist files with
\* ranges of both shapes, comments, blank lines and malformed lines
BlocklistTexts ==
    { << <<"b", ":", "2", "-", "2">> >>,
      << <<"#", "1", "-", "1">>, <<" ">>, <<"a", ":", "1", " ", "-", "1">> >>,
      << <<"#", " ", "c">>,
         <<>>,
         <<"a", ":", "1", "-", "1">>,
         <<" ", "2", " ", "-", " ", "2", " ">> >>,
      << <<"1", "-", "2">> >>,
      << <<"1", "-", "1">>,
         <<"x", "-", "y">>,
         <<"2", "-", "2">> >>,
      << <<"a", ":", "x", "-", "1">>,
         <<"2", "-", "2">> >>,
      << <<"j", "u", "n", "k">>,
         <<"a", "-", "b", ":", "1">>,
         <<"2", "-", "2">> >> }

BlocklistConfigs ==
    {DefaultCfg} \cup {[DefaultCfg EXCEPT !.ip_blocklist = lines] : lines \in BlocklistTexts}

BlocklistNext ==
    \/ initialize
    \/ \E c \in BlocklistConfigs : apply_settings(c)
    \/ shutdown_begin
    \/ shutdown_finish

BlocklistSpec == Init /\ [][BlocklistNext]_vars

\* StateSpec: one torrent whose engine status takes every combination of the
\* inputs of _resolve_state, under the pause, resume and force-resume
\* commands and the engine's own queueing, and the stats tick that takes the
\* snapshots
StateNext ==
    \/ initialize
    \/ \E p \in BOOLEAN : add_magnet("magnet:?xt=urn:btih:h1", "", "", p)
    \/ \E c \in {"pause_torrent", "resume_torrent", "force_resume"} : torrent_command(c, "h1")
    \/ \E errc \in {0, 1}, state \in EngineStates, rate \in DownloadRates, seeds \in SeedCounts :
          EngineStatus("h1", errc, state, rate, seeds)
    \/ EngineQueue("h1")
    \/ \E st \in {"ok", "throws"} : EngineFault("h1", st)
    \/ remove_torrent_cmd("h1", FALSE)
    \/ update_stats

StateSpec == Init /\ [][StateNext]_vars

\* RatioSpec: a torrent that uploads, the stats tick that caches its ratio,
\* and finished alerts under every completion and ratio setting.  The handle
\* of an alert that still names its torrent and the handle in the table
\* refer to the same torrent object, so the handle stays valid here; its
\* status query may fail.
RatioConfigs ==
    {[DefaultCfg EXCEPT !.on_complete_action = oc, !.max_ratio = m, !.ratio_action = ra] :
        oc \in {0, 1, 2}, m \in {0, 1, 2, 3}, ra \in {0, 1}}

RatioNext ==
    \/ initialize
    \/ add_magnet("magnet:?xt=urn:btih:h1", "", "", FALSE)
    \/ \E c \in RatioConfigs : apply_settings(c)
    \/ EngineTransfer("h1")
    \/ \E st \in {"ok", "throws"} : EngineFault("h1", st)
    \/ update_stats
    \/ \E b \in Batches({"torrent_finished"}, {}) : process_alerts(b)

RatioSpec == Init /\ [][RatioNext]_vars

\* ------------------------------------------- a PeerFilter object of its own
\* The calls a holder of a PeerFilter makes on it.  The worker's own filter
\* is only ever configured and asked (its lists stay empty).
WorkerQuiet ==
    UNCHANGED <<phase, cfg, session, torrents, resume_db, schema, db_open, ip_filter,
                peer_filter, focused_hash, timers, eng, engine_filter, engine_seen,
                pending, outstanding, elapsed, now, emitted, announced, gone,
                banned, at_shutdown, batch, tick, session_history, engine_limits>>

MaxBanLog == 1
MaxCustom == 1

call_configure(c) ==
    /\ filter' = configure(filter, c)
    /\ UNCHANGED <<last_check, rss, settings>>
    /\ WorkerQuiet

call_add_whitelist(prefix) ==
    /\ filter' = add_whitelist(filter, prefix)
    /\ UNCHANGED <<last_check, rss, settings>>
    /\ WorkerQuiet

call_add_custom_rule(rule) ==
    /\ Len(filter.custom_bans) < MaxCustom
    /\ filter' = add_custom_rule(filter, rule)
    /\ UNCHANGED <<last_check, rss, settings>>
    /\ WorkerQuiet

call_remove_custom_rule(index) ==
    /\ filter' = remove_custom_rule(filter, index)
    /\ UNCHANGED <<last_check, rss, settings>>
    /\ WorkerQuiet

call_load_blocklist_p2p(ranges) ==
    /\ filter' = load_blocklist_p2p(filter, ranges)
    /\ UNCHANGED <<last_check, rss, settings>>
    /\ WorkerQuiet

\* one check_peer call: the verdict and, inside it, the ban log entry
call_check_peer_any(peer) ==
    LET result == check_peer(filter, peer.peer_id, peer.client, peer.ip)
    IN  /\ filter' = IF result[1] THEN log_ban(filter, peer.ip, peer.client, result[2], now)
                                  ELSE filter
        /\ last_check' = <<peer, result[1], result[2]>>
        /\ UNCHANGED <<rss, settings>>
        /\ WorkerQuiet

call_check_peer(peer) ==
    /\ check_peer(filter, peer.peer_id, peer.client, peer.ip)[1]
          => Len(filter.ban_log) < MaxBanLog
    /\ call_check_peer_any(peer)

\* the settings, prefixes, rules, ranges and peers of FilterSpec: a peer id
\* for each built-in prefix, clean peer ids with a listed client name, a
\* blocklisted address or nothing against them, and a peer every rule matches
FilterSettings ==
    { DefaultCfg,
      [DefaultCfg EXCEPT !.peer_filter_enabled = FALSE],
      [DefaultCfg EXCEPT !.auto_ban_xunlei = FALSE],
      [DefaultCfg EXCEPT !.auto_ban_qq = FALSE],
      [DefaultCfg EXCEPT !.auto_ban_baidu = FALSE] }

Prefixes == {<<"-", "X", "L">>, <<"-", "q", "B">>}

CustomRules ==
    { [pattern |-> <<"-", "q", "B">>, text |-> "-qB", reason |-> "custom"],
      [pattern |-> <<"q", "b", "i", "t">>, text |-> "qbit", reason |-> "custom name"],
      [pattern |-> <<"[", "b", "a", "d">>, text |-> "[bad", reason |-> "custom class"] }

BlocklistFiles == {<<>>, <<<<2, 2>>>>}

PidSuffix == <<"0", "0", "0", "1", "-", "X">>

FilterPeers ==
    { [peer_id |-> KNOWN_LEECHERS[i].pattern \o PidSuffix,
       client |-> "qBittorrent/4.5.0", ip |-> 1] : i \in DOMAIN KNOWN_LEECHERS }
    \cup { [peer_id |-> PidQbit, client |-> "thunder 5", ip |-> 1],
           [peer_id |-> PidQbit, client |-> "qBittorrent/4.5.0", ip |-> 1],
           [peer_id |-> PidQbit, client |-> "qBittorrent/4.5.0", ip |-> 2],
           [peer_id |-> PidXunlei, client |-> "thunder 5", ip |-> 2] }

FilterNext ==
    \/ \E c \in FilterSettings : call_configure(c)
    \/ \E prefix \in Prefixes : call_add_whitelist(prefix)
    \/ \E rule \in {r \in CustomRules : r.text = "-qB"} : call_add_custom_rule(rule)
    \/ \E ranges \in BlocklistFiles : call_load_blocklist_p2p(ranges)
    \/ \E peer \in FilterPeers : call_check_peer(peer)

FilterSpec == Init /\ [][FilterNext]_vars

\* LogSpec: check_peer called until the ban log is full and beyond.  Bans
\* come for a Xunlei peer id and for a Thunder client name in turn, the
\* Xunlei one first, so that the order of the log shows; a clean peer is
\* checked in between.
LogPeers ==
    { [peer_id |-> PidXunlei, client |-> "qBittorrent/4.5.0", ip |-> 1],
      [peer_id |-> PidQbit, client |-> "thunder 5", ip |-> 2],
      [peer_id |-> PidQbit, client |-> "qBittorrent/4.5.0", ip |-> 1] }

CleanPeer(p) == p.peer_id = PidQbit /\ p.client = "qBittorrent/4.5.0"

NextLogPeers ==
    {p \in LogPeers :
        \/ CleanPeer(p)
        \/ IF filter.ban_log = <<>> THEN p.peer_id = PidXunlei
           ELSE p.client # filter.ban_log[Len(filter.ban_log)].client}

LogNext == \E peer \in NextLogPeers : call_check_peer_any(peer)

LogSpec == Init /\ [][LogNext]_vars

\* NameSpec: peers whose client string a built-in client-name pattern matches
\* or does not match, under peer ids with a prefix of each kind, while the
\* category flags and the whitelist change
NameClients ==
    {"Xunlei 7.2.1", "thunder 5", "QQDownload 1.0", "uTorrent 7.10.3.45", "qBittorrent/4.5.0"}

NamePeers ==
    { [peer_id |-> id, client |-> client, ip |-> 1] :
        id \in {PidQbit, PidXunlei, <<"-", "Q", "D", "0">>, <<"-", "X", "F", "0">>},
        client \in NameClients }

NameNext ==
    \/ \E c \in FilterSettings : call_configure(c)
    \/ \E prefix \in Prefixes : call_add_whitelist(prefix)
    \/ \E peer \in NamePeers : call_check_peer(peer)

NameSpec == Init /\ [][NameNext]_vars

\* CustomSpec: custom rules that match by peer-id prefix, by client name, or
\* hold a pattern that is no regular expression, added and removed, next to
\* the built-in rules, one whitelist prefix and the blocklist
CustomPeers ==
    {p \in FilterPeers : p.peer_id = PidQbit \/ p.peer_id = PidXunlei
                            \/ StartsWith(p.peer_id, <<"-", "X", "L">>)}

CustomNext ==
    \/ \E c \in {DefaultCfg, [DefaultCfg EXCEPT !.auto_ban_xunlei = FALSE]} : call_configure(c)
    \/ call_add_whitelist(<<"-", "X", "L">>)
    \/ \E rule \in CustomRules : call_add_custom_rule(rule)
    \/ \E index \in 0..MaxCustom : call_remove_custom_rule(index)
    \/ \E ranges \in BlocklistFiles : call_load_blocklist_p2p(ranges)
    \/ \E peer \in CustomPeers : call_check_peer(peer)

CustomSpec == Init /\ [][CustomNext]_vars

\* ----------------------------------------------------- the RSSMonitor's calls
RssQuiet == WorkerQuiet /\ UNCHANGED <<filter, last_check, settings>>

MaxResults == 2

\* RSSMonitor.add_feed
add_feed(config) ==
    /\ rss' = add_feed_body([rss EXCEPT !.emitted = <<>>, !.last_timeout = NoTimeout], config)
    /\ RssQuiet

load_config(feed_list) ==
    /\ rss' = load_config_body([rss EXCEPT !.emitted = <<>>, !.last_timeout = NoTimeout], feed_list)
    /\ RssQuiet

\* RSSMonitor.remove_feed
remove_feed(url) ==
    /\ rss' = [rss EXCEPT !.timers[url] = NoTimer, !.feeds[url] = NoFeed, !.emitted = <<>>, !.last_timeout = NoTimeout]
    /\ RssQuiet

\* RSSMonitor._schedule_fetch, as a timer or check_all_now calls it; on a
\* pool that was shut down submit raises
schedule_fetch(url) ==
    /\ rss.feeds[url] # NoFeed
    /\ rss.feeds[url].enabled
    /\ rss.pool_open
    /\ url \notin rss.in_flight
    /\ rss' = [rss EXCEPT !.in_flight = @ \cup {url}, !.emitted = <<>>, !.last_timeout = NoTimeout]
    /\ RssQuiet

\* the repeating timer of url times out
timer_fires(url) ==
    /\ rss.timers[url] # NoTimer \/ rss.stray[url] > 0
    /\ url \notin rss.in_flight
    /\ rss' = [schedule_fetch_body(rss, url) EXCEPT
                  !.emitted = <<>>, !.last_timeout = [kind |-> "timer", url |-> url]]
    /\ RssQuiet

\* a one-shot that an add_feed of url left pending times out; last: no
\* other one-shot for url is pending
warmup_fires(url, last) ==
    /\ url \in rss.warmup
    /\ url \notin rss.in_flight
    /\ rss' = [schedule_fetch_body(rss, url) EXCEPT
                  !.warmup = IF last THEN @ \ {url} ELSE @,
                  !.emitted = <<>>, !.last_timeout = [kind |-> "warmup", url |-> url]]
    /\ RssQuiet

\* _on_fetch_done: the fetch of url returns the text that parses to items,
\* and the processing is queued for the GUI thread
on_fetch_done(url, items) ==
    /\ url \in rss.in_flight
    /\ Len(rss.results) < MaxResults
    /\ rss' = [rss EXCEPT !.in_flight = @ \ {url},
                          !.results = Append(@, <<url, items>>),
                          !.emitted = <<>>, !.last_timeout = NoTimeout]
    /\ RssQuiet

\* the queued _process_feed call runs
process_feed ==
    /\ rss.results # <<>>
    /\ LET url == Head(rss.results)[1]
           items == Head(rss.results)[2]
       IN  rss' = process_feed_body([rss EXCEPT !.results = Tail(@), !.emitted = <<>>, !.last_timeout = NoTimeout],
                                    url, items)
    /\ RssQuiet

\* RSSMonitor.stop_all
stop_all ==
    /\ rss' = [rss EXCEPT !.timers = [u \in FeedUrls |-> NoTimer],
                          !.pool_open = FALSE, !.db_open = FALSE, !.emitted = <<>>, !.last_timeout = NoTimeout]
    /\ RssQuiet

\* RssSpec: two feeds that carry the same items, fetched again and again
ItemUbuntu ==
    FeedItem("Ubuntu 22.04.3 LTS Desktop", "https://example.com/ubuntu", "",
             "https://example.com/ubuntu.torrent", "item-001")
ItemMagnet ==
    FeedItem("Magnet Item", "magnet:?xt=urn:btih:abc123", "magnet:?xt=urn:btih:abc123",
             "", "item-002")
ItemPage == FeedItem("No Download", "https://example.com/page", "", "", "item-003")
ItemAtom == FeedItem("Atom Item", "", "magnet:?xt=urn:btih:abc123", "", "")
ItemMirror ==
    FeedItem("Ubuntu mirror", "https://example.com/b.torrent", "", "", "item-001")

Documents ==
    { <<ItemUbuntu, ItemMagnet, ItemPage>>,
      <<ItemMirror, ItemAtom, ItemAtom>> }

RssConfigs ==
    { FeedConfig("f1", TRUE, "", "", TRUE),
      FeedConfig("f2", TRUE, "ubuntu", "", FALSE),
      FeedConfig("f2", TRUE, "[invalid", "", TRUE),
      FeedConfig("f2", TRUE, "", "[invalid", TRUE),
      FeedConfig("f2", TRUE, "", "ubuntu", TRUE) }

RssNext ==
    \/ \E config \in RssConfigs : add_feed(config)
    \/ \E url \in FeedUrls : schedule_fetch(url)
    \/ \E url \in FeedUrls, items \in Documents : on_fetch_done(url, items)
    \/ process_feed
    \/ stop_all

RssSpec == Init /\ [][RssNext]_vars

\* TimerSpec: feeds added enabled and disabled, added again and removed,
\* while their repeating timers and warm-up one-shots time out and the
\* fetches they start come back
TimerConfigs ==
    { FeedConfig("f1", TRUE, "", "", TRUE),
      FeedConfig("f1", FALSE, "", "", TRUE),
      [FeedConfig("f1", TRUE, "", "", TRUE) EXCEPT !.interval_minutes = 60],
      FeedConfig("f2", TRUE, "", "", FALSE) }

TimerNext ==
    \/ \E config \in TimerConfigs : add_feed(config)
    \/ \E url \in FeedUrls : remove_feed(url)
    \/ \E url \in FeedUrls : timer_fires(url)
    \/ \E url \in FeedUrls, last \in BOOLEAN : warmup_fires(url, last)
    \/ \E url \in FeedUrls : on_fetch_done(url, <<ItemMagnet>>)
    \/ process_feed

TimerSpec == Init /\ [][TimerNext]_vars

\* ------------------------------------------------------ the Settings calls
SettingsQuiet == WorkerQuiet /\ UNCHANGED <<filter, last_check, rss>>

call_set(key, value) ==
    /\ settings.open
    /\ settings' = settings_set(settings, key, value)
    /\ SettingsQuiet

\* Settings.close
call_close ==
    /\ settings.open
    /\ settings' = [settings EXCEPT !.open = FALSE]
    /\ SettingsQuiet

\* Settings(db_path) on the file again
reopen ==
    /\ ~settings.open
    /\ settings' = [settings EXCEPT !.open = TRUE, !.reopened = TRUE]
    /\ SettingsQuiet

SettingsNext ==
    \/ \E key \in SettingKeys, value \in JsonValues : call_set(key, value)
    \/ call_close
    \/ reopen

SettingsSpec == Init /\ [][SettingsNext]_vars

\* FeedSpec: the feed configs as they are loaded, added and removed, and the
\* timers armed for them
FeedDicts ==
    { [url |-> "f1", interval_minutes |-> 30],
      [url |-> "f1", interval_minutes |-> 1, auto_download |-> FALSE],
      [url |-> "f2", interval_minutes |-> 5, enabled |-> FALSE],
      [url |-> "f2", interval_minutes |-> 0, added_by |-> "import"],
      [interval_minutes |-> 3] }

FeedNext ==
    \/ \E d1 \in FeedDicts, d2 \in FeedDicts : load_config(<<d1, d2>>)
    \/ \E d \in FeedDicts : add_feed(from_dict(d))
    \/ \E url \in FeedUrls : remove_feed(url)
    \/ \E url \in FeedUrls : schedule_fetch(url)
    \/ \E url \in FeedUrls : on_fetch_done(url, <<ItemMagnet>>)
    \/ process_feed
    \/ stop_all

FeedSpec == Init /\ [][FeedNext]_vars

\* GateSpec: the enabled flag, on a filter of its own and on the worker's as
\* peer_connect alerts come in
GateSettings == {DefaultCfg, [DefaultCfg EXCEPT !.peer_filter_enabled = FALSE]}

GateNext ==
    \/ initialize
    \/ add_magnet("magnet:?xt=urn:btih:h1", "", "", FALSE)
    \/ \E c \in GateSettings : apply_settings(c)
    \/ \E peer \in Peers : process_alerts(<<PeerAlert(peer.info_hash, peer.address,
                                   peer.peer_id, peer.client, peer.listed)>>)
    \/ \E c \in GateSettings : call_configure(c)
    \/ call_load_blocklist_p2p(<<<<2, 2>>>>)
    \/ \E peer \in {p \in FilterPeers : p.ip = 2 \/ StartsWith(p.peer_id, <<"-", "X", "L">>)} :
          call_check_peer(peer)

GateSpec == Init /\ [][GateNext]_vars

\* HistorySpec: the stats tick with its histories, over a torrent that comes
\* and goes.  The engine reports rates that differ from one tick to the next,
\* so that a sample dropped or kept out of turn shows in the lists.
Rates == {1, 2}

NextRates ==
    {r \in Rates : session_history.dl = <<>>
                       \/ r # session_history.dl[Len(session_history.dl)]}

HistoryNext ==
    \/ initialize
    \/ add_magnet("magnet:?xt=urn:btih:h1", "", "", FALSE)
    \/ remove_torrent_cmd("h1", FALSE)
    \/ \E r \in NextRates : update_stats_with_history(r, 3 - r)

HistorySpec == Init /\ [][HistoryNext]_vars

\* ================================================================= claims
\* a signal bears h: it names h, or it carries a snapshot of h
Bears(sig, h) ==
    \/ sig.info_hash = h
    \/ \E k \in DOMAIN sig.torrents : sig.torrents[k].info_hash = h

LifecycleAt(i, h) ==
    emitted[i].info_hash = h /\ emitted[i].type \in {"torrent_added", "torrent_removed"}

\* the last lifecycle signal for h before position j of this step's signals
\* (or, when the step has none for h, before the step) is torrent_removed
RemovedBefore(h, j) ==
    LET L == {i \in 1..(j - 1) : LifecycleAt(i, h)}
    IN  IF L # {}
        THEN emitted[CHOOSE i \in L : \A k \in L : k <= i].type = "torrent_removed"
        ELSE h \in gone /\ \A i \in DOMAIN emitted : ~LifecycleAt(i, h)

\* torrent_added(h) was emitted before position j of this step's signals
AnnouncedBefore(h, j) ==
    \/ \E i \in 1..(j - 1) : emitted[i].type = "torrent_added" /\ emitted[i].info_hash = h
    \/ h \in announced /\ \A i \in DOMAIN emitted :
                              ~(emitted[i].type = "torrent_added" /\ emitted[i].info_hash = h)

\* C1: once torrent_removed(h) is the last lifecycle signal for h, the
\* Resume Store holds no row for h
C1_NoRowAfterRemove == \A h \in gone : ~Has(resume_db, h)

\* C2: after torrent_removed(h) and until h is added again, no emitted
\* signal (finished, error, metadata, detail, or a stats snapshot) bears h
C2_NoEventAfterRemoved ==
    \A h \in Hashes, j \in DOMAIN emitted :
        (Bears(emitted[j], h) /\ emitted[j].type # "torrent_removed")
            => ~RemovedBefore(h, j)

\* C3: the first signal of a session that bears h is torrent_added(h), also
\* for the torrents Initialize restores from the Resume Store
C3_AddedComesFirst ==
    \A h \in Hashes, j \in DOMAIN emitted :
        (Bears(emitted[j], h) /\ emitted[j].type # "torrent_added")
            => AnnouncedBefore(h, j)

\* C6: a fresh Initialize after Shutdown restores exactly the torrents the
\* table held when Shutdown began, each with its category, tags, added_time
SameDetails(a, b) ==
    a.category = b.category /\ a.tags = b.tags /\ a.added_time = b.added_time

Restored(before, after) ==
    /\ Keys(after) = Keys(before)
    /\ \A h \in Keys(before) : Has(after, h) => SameDetails(Get(before, h), Get(after, h))

C6_RestartRestoresTable ==
    [][(phase = "stopped" /\ phase' = "running") => Restored(at_shutdown, torrents')]_vars

\* C7: every Shutdown ends in stopped, whether the answers to the save
\* requests arrive or not; when stopped is emitted and from then on the
\* timers are stopped, the engine and the store are closed, the table is
\* empty, and no signal but stopped is emitted
SignalTypes(es) == {es[i].type : i \in DOMAIN es}

Closed ==
    /\ timers = {}
    /\ ~session
    /\ ~db_open
    /\ torrents = <<>>
    /\ SignalTypes(emitted) \subseteq {"stopped"}

C7_ShutdownStops ==
    /\ [](phase = "stopped" => Closed)
    /\ (phase = "stopping") ~> (phase = "stopped" /\ SignalTypes(emitted) = {"stopped"})

\* a Shutdown that gave up on an answer, with a torrent in the table
C7_Witness ==
    /\ phase = "stopped"
    /\ SignalTypes(emitted) = {"stopped"}
    /\ outstanding > 0
    /\ at_shutdown # <<>>

\* C9: one drain dispatches every alert of the popped batch once, in the
\* order of the batch, whether or not an earlier handler raised: the
\* finished, error and metadata signals of the step are those of the batch
EventType(alert_type) ==
    CASE alert_type = "torrent_finished" -> "torrent_finished"
      [] alert_type = "torrent_error" -> "torrent_error"
      [] alert_type = "metadata_received" -> "torrent_metadata"
      [] OTHER -> ""

Expected(b) ==
    LET as == SelectSeq(b, LAMBDA a : a.type \in TorrentAlertTypes)
    IN  [i \in DOMAIN as |-> <<EventType(as[i].type), AlertHash(as[i])>>]

Primary(es) ==
    LET ps == SelectSeq(es, LAMBDA e : e.type \in {"torrent_finished", "torrent_error",
                                                   "torrent_metadata"})
    IN  [i \in DOMAIN ps |-> <<ps[i].type, ps[i].info_hash>>]

C9_EveryAlertDispatched == Primary(emitted) = Expected(batch)

\* the finished handler raised (remove on a handle that is not valid) and
\* the error alert behind it was still dispatched
C9_Witness ==
    /\ cfg.on_complete_action = 2
    /\ Has(torrents, "h1")
    /\ Len(batch) = 2
    /\ emitted = <<Signal("torrent_finished", "h1"), Signal("torrent_error", "h1")>>

\* C4: an add of a hash the table already holds emits nothing and leaves
\* the table as it is: one record for the hash, with the category, tags and
\* added_time of the first add
AddsHash(h) ==
    \/ \E f \in TorrentFiles, a \in AddArgs, p \in PausedArgs :
          /\ FileReadable(f) /\ FileInfoHash(f) = h
          /\ a[2] = "" \/ JsonValid(a[2])
          /\ add_torrent_file(f, a[1], a[2], p)
    \/ \E u \in MagnetUris, a \in AddArgs, p \in PausedArgs :
          /\ MagnetParses(u) /\ MagnetInfoHash(u) = h
          /\ a[2] = "" \/ JsonValid(a[2])
          /\ add_magnet(u, a[1], a[2], p)

C4_DuplicateAddIsNoOp ==
    [][\A h \in Hashes :
          (session /\ Has(torrents, h) /\ AddsHash(h))
              => /\ emitted' = <<>>
                 /\ torrents' = torrents
                 /\ Cardinality({i \in DOMAIN torrents' : torrents'[i].key = h}) = 1]_vars

\* two torrents in the table; a second add of h1 would now differ from the
\* first in its category and in the clock
C4_Witness ==
    /\ phase = "running"
    /\ Len(torrents) = 2
    /\ Get(torrents, "h1").category = "Movies"
    /\ Get(torrents, "h1").added_time < now
    /\ emitted = <<>>

\* C5: a stats_updated signal holds one snapshot for each info_hash of the
\* table, each bearing its key, and its torrent_count is their number
C5_StatsMatchTable ==
    \A i \in DOMAIN emitted :
        emitted[i].type = "stats_updated"
            => LET sn == emitted[i].torrents
               IN  /\ emitted[i].torrent_count = Len(sn)
                   /\ {sn[k].info_hash : k \in DOMAIN sn} = Keys(torrents)
                   /\ Len(sn) = Cardinality(Keys(torrents))

\* C8: while a timer callback runs on the worker thread no slot runs and
\* the table the stats tick iterates over is not changed
TableKeys(t) == [i \in DOMAIN t |-> t[i].key]

C8_SlotsWaitForTheTick ==
    [][tick.pc # "idle"
          => /\ tick'.calls = tick.calls
             /\ TableKeys(torrents') = TableKeys(torrents)]_vars

\* C10: an address peer_banned was emitted for is denied by the filter
\* installed in the engine, for as long as the session lives
C10_BannedStaysDenied == session => \A a \in banned : engine_filter[a] = 1

\* a ban, and a blocklist reload that denies another address
C10_Witness ==
    /\ session
    /\ banned = {1}
    /\ cfg.ip_blocklist # <<>>
    /\ engine_filter[1] = 1
    /\ engine_filter[2] = 1

\* C11: once Initialize has opened the Resume Store the stored schema version
\* is the current one, whatever the store held before
C11_VersionIsCurrent == db_open => schema.version = <<SCHEMA_VERSION>>

\* C12: once the Resume Store is open, resume_data has the columns dl_limit
\* and ul_limit, whatever the store held before
C12_LimitColumnsExist ==
    db_open => "resume_data" \in schema.tables /\ LimitColumns \subseteq schema.columns

\* C13: an AddMagnet whose URI is empty, does not begin with "magnet:" or is
\* rejected by the parser is answered with an add_failed signal, announces
\* no torrent and leaves the table and the Resume Store as they are
C13_BadMagnetFails ==
    [][\A u \in MagnetUris, a \in AddArgs, p \in PausedArgs :
          (session /\ ~MagnetParses(u) /\ add_magnet(u, a[1], a[2], p))
              => /\ "add_failed" \in SignalTypes(emitted')
                 /\ "torrent_added" \notin SignalTypes(emitted')
                 /\ torrents' = torrents
                 /\ resume_db' = resume_db]_vars

\* C14: Remove and the per-torrent commands issued for an info_hash the table
\* does not hold emit nothing and leave the table, the engine and the Resume
\* Store as they are
C14_UnknownHashIsNoOp ==
    [][\A h \in Hashes :
          (/\ ~Has(torrents, h)
           /\ \/ \E c \in TorrentCommands : torrent_command(c, h)
              \/ \E d \in BOOLEAN : remove_torrent_cmd(h, d))
              => /\ emitted' = <<>>
                 /\ torrents' = torrents
                 /\ eng' = eng
                 /\ resume_db' = resume_db]_vars

\* h1 is in the table and answers a request for its magnet URI while h2 is
\* in neither the table nor the engine
C14_Witness ==
    /\ session
    /\ Has(torrents, "h1")
    /\ ~Has(torrents, "h2")
    /\ eng["h2"].st = "none"
    /\ emitted = <<Signal("magnet_uri_ready", "h1")>>

\* C15: a finished alert for a torrent of the table, on_complete_action not
\* 2: when max_ratio > 0 and the cached ratio exceeds it, ratio_action 1
\* emits torrent_finished then one torrent_removed and the torrent leaves the
\* table and the Resume Store, ratio_action 0 pauses it and keeps it; when
\* max_ratio is 0 or the ratio is below it, nothing but on_complete_action
\* is applied
C15_RatioAction ==
    [][\A h \in Hashes :
          (/\ Has(torrents, h)
           /\ cfg.on_complete_action # 2
           /\ process_alerts(<<Alert("torrent_finished", h, FALSE)>>))
              => LET ratio == Get(torrents, h).snap.ratio
                     over == cfg.max_ratio > 0 /\ ratio > cfg.max_ratio
                     under == cfg.max_ratio = 0 \/ ratio < cfg.max_ratio
                 IN  /\ (over /\ cfg.ratio_action = 1)
                          => /\ emitted' = <<Signal("torrent_finished", h),
                                             Signal("torrent_removed", h)>>
                             /\ ~Has(torrents', h)
                             /\ ~Has(resume_db', h)
                     /\ (over /\ cfg.ratio_action = 0)
                          => /\ emitted' = <<Signal("torrent_finished", h)>>
                             /\ Has(torrents', h)
                             /\ eng'[h].paused /\ ~eng'[h].auto_managed
                     /\ under
                          => /\ emitted' = <<Signal("torrent_finished", h)>>
                             /\ Has(torrents', h)
                             /\ cfg.on_complete_action = 0 => eng' = eng]_vars

\* the ratio limit removed a torrent that on_complete_action had paused
C15_Witness ==
    /\ cfg.on_complete_action = 1
    /\ cfg.max_ratio = 1
    /\ cfg.ratio_action = 1
    /\ batch = <<Alert("torrent_finished", "h1", FALSE)>>
    /\ emitted = <<Signal("torrent_finished", "h1"), Signal("torrent_removed", "h1")>>
    /\ ~Has(torrents, "h1")

\* C16: after any number of stats ticks the session's download and upload
\* histories (the lists every stats_updated carries a copy of) have the same
\* length, at most 300, and every torrent's download and upload speed
\* histories have the same length, at most 120; a tick that finds a list full
\* drops its oldest sample and appends the newest one.
HistoriesBounded ==
    /\ Len(session_history.dl) = Len(session_history.ul)
    /\ Len(session_history.dl) <= max_session_history
    /\ \A i \in DOMAIN torrents :
          /\ Len(torrents[i].speed_history_dl) = Len(torrents[i].speed_history_ul)
          /\ Len(torrents[i].speed_history_dl) <= max_history

FullTickShifts(dl_rate, ul_rate) ==
    /\ Len(session_history.dl) = max_session_history
          => /\ session_history'.dl = Append(Tail(session_history.dl), dl_rate)
             /\ session_history'.ul = Append(Tail(session_history.ul), ul_rate)
    /\ \A i \in DOMAIN torrents :
          Len(torrents[i].speed_history_dl) = max_history
          => \E j \in DOMAIN torrents' :
                /\ torrents'[j].key = torrents[i].key
                /\ torrents'[j].speed_history_dl =
                       Append(Tail(torrents[i].speed_history_dl),
                              torrents'[j].speed_history_dl[max_history])
                /\ torrents'[j].speed_history_dl[max_history] \in {0, dl_rate}
                /\ torrents'[j].speed_history_ul =
                       Append(Tail(torrents[i].speed_history_ul),
                              torrents'[j].speed_history_ul[max_history])
                /\ torrents'[j].speed_history_ul[max_history] \in {0, ul_rate}

DisabledAllows(peer) ==
    (~filter.enabled /\ call_check_peer(peer))
        => /\ last_check' = <<peer, FALSE, "">>
           /\ filter'.ban_log = filter.ban_log

DisabledWorkerIgnores(peer) ==
    (/\ ~peer_filter.enabled
     /\ process_alerts(<<PeerAlert(peer.info_hash, peer.address, peer.peer_id,
                                   peer.client, peer.listed)>>))
        => /\ "peer_banned" \notin SignalTypes(emitted')
           /\ ip_filter' = ip_filter
           /\ engine_filter' = engine_filter

C17_DisabledNeverBans ==
    [][/\ \A peer \in FilterPeers : DisabledAllows(peer)
       /\ \A peer \in Peers : DisabledWorkerIgnores(peer)]_vars

C17_Witness ==
    /\ ~filter.enabled
    /\ filter.ip_blocklist # <<>>
    /\ filter.ban_log = <<>>
    /\ last_check # NoCheck
    /\ StartsWith(last_check[1].peer_id, <<"-", "X", "L">>)
    /\ last_check[1].ip = 2
    /\ ~last_check[2]
    /\ ~peer_filter.enabled
    /\ session
    /\ Len(batch) = 1
    /\ batch[1].type = "peer_connect"
    /\ batch[1].peer_id = PidXunlei
    /\ batch[1].listed
    /\ HandleValid(eng, "h1")
    /\ emitted = <<>>

\* C18: a peer whose peer id, cut to 8 characters, starts with an entry of
\* the whitelist is allowed by check_peer and not logged, whichever built-in
\* rule, client-name pattern, custom rule or blocklist range matches it; and
\* add_whitelist of a prefix that is in the whitelist leaves the list as it is.
Whitelisted(peer) ==
    \E i \in DOMAIN filter.whitelist :
        StartsWith(peer_id_str(peer.peer_id), filter.whitelist[i])

C18_WhitelistWins ==
    [][/\ \A peer \in FilterPeers :
            (Whitelisted(peer) /\ call_check_peer(peer))
                => /\ last_check' = <<peer, FALSE, "">>
                   /\ filter'.ban_log = filter.ban_log
       /\ \A prefix \in Prefixes :
            ((\E i \in DOMAIN filter.whitelist : filter.whitelist[i] = prefix)
             /\ call_add_whitelist(prefix))
                => filter'.whitelist = filter.whitelist]_vars

C18_Witness ==
    /\ filter.enabled
    /\ Len(filter.whitelist) = 2
    /\ filter.ip_blocklist # <<>>
    /\ filter.custom_bans # <<>>
    /\ last_check # NoCheck
    /\ Whitelisted(last_check[1])
    /\ last_check[1].peer_id = PidXunlei
    /\ match_rules(filter, last_check[1].peer_id, last_check[1].client, last_check[1].ip)[1]
    /\ ~last_check[2]
    /\ filter.ban_log = <<>>

\* C19: with the filter enabled and a category flag off, a peer whose only
\* match is a built-in prefix of that category (-XL, -SD, -DL for
\* auto_ban_xunlei, -QD for auto_ban_qq, -BN for auto_ban_baidu) is allowed,
\* while a prefix of a category that is on, or of no category (-XF, -TS, -FG,
\* -TT), is banned; the flags are those of the last configure().
XunleiPrefixes == {<<"-", "X", "L">>, <<"-", "S", "D">>, <<"-", "D", "L">>}
QqPrefixes == {<<"-", "Q", "D">>}
BaiduPrefixes == {<<"-", "B", "N">>}

CategoryOff(prefix) ==
    \/ prefix \in XunleiPrefixes /\ ~filter.ban_xunlei
    \/ prefix \in QqPrefixes /\ ~filter.ban_qq
    \/ prefix \in BaiduPrefixes /\ ~filter.ban_baidu

PrefixPeer(i) ==
    [peer_id |-> KNOWN_LEECHERS[i].pattern \o PidSuffix,
     client |-> "qBittorrent/4.5.0", ip |-> 1]

Flags(pf) == <<pf.enabled, pf.ban_xunlei, pf.ban_qq, pf.ban_baidu>>

\* no client-name pattern, custom rule or blocklist range stops the walk
NothingElseMatches(peer) ==
    /\ \A i \in DOMAIN SUSPICIOUS_CLIENTS : ~ReSearch(SUSPICIOUS_CLIENTS[i].pattern, peer.client)
    /\ custom_stop(filter.custom_bans, peer_id_str(peer.peer_id), peer.client, 1) = 0
    /\ ~check_ip_blocked(filter, peer.ip)

C19_CategoryFlags ==
    [][/\ \A i \in DOMAIN KNOWN_LEECHERS :
            (/\ filter.enabled
             /\ ~Whitelisted(PrefixPeer(i))
             /\ call_check_peer(PrefixPeer(i)))
                => IF CategoryOff(KNOWN_LEECHERS[i].pattern)
                   THEN NothingElseMatches(PrefixPeer(i))
                           => /\ last_check' = <<PrefixPeer(i), FALSE, "">>
                              /\ filter'.ban_log = filter.ban_log
                   ELSE last_check' = <<PrefixPeer(i), TRUE, KNOWN_LEECHERS[i].reason>>
       /\ \A c \in FilterSettings :
            call_configure(c)
                => Flags(filter') = <<c.peer_filter_enabled, c.auto_ban_xunlei,
                                      c.auto_ban_qq, c.auto_ban_baidu>>
       /\ Flags(filter') # Flags(filter) => \E c \in FilterSettings : call_configure(c)]_vars

C19_Witness ==
    /\ filter.enabled
    /\ ~filter.ban_xunlei
    /\ last_check = <<PrefixPeer(2), FALSE, "">>
    /\ filter.ban_log # <<>>
    /\ filter.ban_log[1].reason = "QQ Tornado/Whirlwind"

\* C20: across the feed processings of a run, whatever the feeds and however
\* often the same content comes back, each unique_id is counted as new at
\* most once and new_torrent is emitted for it at most once.
C20_CountedOnce ==
    \A id \in ItemIds : rss.counted[id] <= 1 /\ rss.added[id] <= 1

\* C21: a parsed item is accepted exactly when its download_url is not empty,
\* the include pattern is empty or matches the title, and the exclude pattern
\* is empty or does not match it; an include pattern that does not compile
\* accepts nothing, an exclude pattern that does not compile excludes
\* nothing.  A processing counts, records and emits accepted items only, and
\* it counts every accepted item that is not in the history.
Accepted(config, item) ==
    /\ download_url(item) # ""
    /\ \/ config.include_pattern = ""
       \/ Search(config.include_pattern, item.title) = "match"
    /\ \/ config.exclude_pattern = ""
       \/ Search(config.exclude_pattern, item.title) \in {"none", "error"}

AcceptedIn(config, items, id) ==
    \E i \in DOMAIN items : unique_id(items[i]) = id /\ Accepted(config, items[i])

ProcessAccepts(config, items) ==
    /\ \A id \in ItemIds :
          /\ rss'.counted[id] > rss.counted[id] => AcceptedIn(config, items, id)
          /\ (AcceptedIn(config, items, id) /\ ~is_seen(rss, id))
                => rss'.counted[id] > rss.counted[id]
    /\ \A row \in rss'.seen_items \ rss.seen_items :
          AcceptedIn(config, items, row.item_id)
    /\ \A i \in DOMAIN rss'.emitted :
          rss'.emitted[i].type = "new_torrent"
              => \E j \in DOMAIN items :
                    /\ Accepted(config, items[j])
                    /\ download_url(items[j]) = rss'.emitted[i].download_url

C21_OnlyAcceptedItems ==
    [][(process_feed /\ rss.feeds[Head(rss.results)[1]] # NoFeed)
          => ProcessAccepts(rss.feeds[Head(rss.results)[1]], Head(rss.results)[2])]_vars

C21_Witness ==
    /\ rss.feeds["f2"].exclude_pattern = "ubuntu"
    /\ rss.db_open
    /\ Len(rss.emitted) = 2
    /\ rss.emitted[1].type = "new_torrent"
    /\ rss.emitted[1].feed_url = "f2"
    /\ rss.emitted[1].download_url = "magnet:?xt=urn:btih:abc123"
    /\ rss.emitted[2] = RssSignal("feed_checked", "f2", "", 3, 1)
    /\ rss.counted["item-001"] = 0
    /\ rss.counted["item-003"] = 0

\* C22: every feed config the monitor holds has interval_minutes >= 5, and
\* no repeating feed timer runs with a period below 5 minutes.
C22_IntervalAtLeastFive ==
    \A url \in FeedUrls :
        /\ rss.feeds[url] # NoFeed => rss.feeds[url].interval_minutes >= 5
        /\ rss.timers[url] # NoTimer => rss.timers[url] >= 5 * 60 * 1000

\* C23: each processing of a fetched feed emits exactly one feed_checked(url,
\* total_items, new_items), after every new_torrent of the pass; total_items
\* is the number of parsed items, new_items the number of items the pass
\* recorded in the history, and the pass emits new_items new_torrent signals
\* when auto_download is set and none when it is not.
NewTorrents(es) == {i \in DOMAIN es : es[i].type = "new_torrent"}

OneFeedChecked(url, items) ==
    LET es == rss'.emitted
        recorded == Cardinality(rss'.seen_items \ rss.seen_items)
    IN  /\ es # <<>>
        /\ es[Len(es)] = RssSignal("feed_checked", url, "", Len(items), recorded)
        /\ \A i \in 1..(Len(es) - 1) : es[i].type = "new_torrent"
        /\ Cardinality(NewTorrents(es)) =
               IF rss.feeds[url].auto_download THEN recorded ELSE 0

C23_OneFeedChecked ==
    [][process_feed => OneFeedChecked(Head(rss.results)[1], Head(rss.results)[2])]_vars

C25_OneSaveOutstanding ==
    \A h \in Hashes : pending[h] <= 1

\* C26: a finished alert for a torrent of the table emits torrent_finished
\* first.  on_complete_action 2 removes the torrent with its files kept and
\* ends the handler: one torrent_removed, nothing paused afterwards.
\* on_complete_action 1 pauses it and 0 does nothing to it, and the torrent
\* stays in the table unless the ratio limit then removes it.  Under every
\* setting of on_complete_action, max_ratio and ratio_action at most one
\* torrent_removed follows, and a second finished alert of the same batch
\* finds the torrent gone and only emits torrent_finished.
Removals(sigs, h) ==
    Cardinality({i \in DOMAIN sigs : sigs[i] = Signal("torrent_removed", h)})

C26_FinishedAction ==
    [][\A h \in Hashes :
          LET fin == Alert("torrent_finished", h, FALSE)
              ratio == Get(torrents, h).snap.ratio
              limit == cfg.max_ratio > 0 /\ ratio >= cfg.max_ratio
              ratio_removes == limit /\ cfg.ratio_action = 1
          IN  /\ (Has(torrents, h) /\ process_alerts(<<fin>>))
                   => /\ emitted' # <<>>
                      /\ Head(emitted') = Signal("torrent_finished", h)
                      /\ Removals(emitted', h) <= 1
                      /\ cfg.on_complete_action = 2
                           => /\ emitted' = <<Signal("torrent_finished", h),
                                              Signal("torrent_removed", h)>>
                              /\ ~Has(torrents', h)
                              /\ eng'[h] = NoTorrent
                      /\ (cfg.on_complete_action = 1 /\ ~ratio_removes)
                           => /\ Has(torrents', h)
                              /\ eng'[h].paused /\ ~eng'[h].auto_managed
                              /\ emitted' = <<Signal("torrent_finished", h)>>
                      /\ (cfg.on_complete_action = 0 /\ ~limit)
                           => /\ torrents' = torrents
                              /\ eng' = eng
                              /\ emitted' = <<Signal("torrent_finished", h)>>
                      /\ (cfg.on_complete_action # 2 /\ ratio_removes)
                           => /\ ~Has(torrents', h)
                              /\ eng'[h] = NoTorrent
              /\ (Has(torrents, h) /\ process_alerts(<<fin, fin>>))
                   => /\ Removals(emitted', h) <= 1
                      /\ (cfg.on_complete_action = 2 \/ ratio_removes)
                           => emitted' = <<Signal("torrent_finished", h),
                                           Signal("torrent_removed", h),
                                           Signal("torrent_finished", h)>>]_vars

\* on_complete_action 2 removed a torrent whose ratio was over a limit that
\* also asks for removal, and the second finished alert found it gone
C26_Witness ==
    /\ cfg.on_complete_action = 2
    /\ cfg.max_ratio = 1
    /\ cfg.ratio_action = 1
    /\ batch = <<Alert("torrent_finished", "h1", FALSE), Alert("torrent_finished", "h1", FALSE)>>
    /\ emitted = <<Signal("torrent_finished", "h1"), Signal("torrent_removed", "h1"),
                   Signal("torrent_finished", "h1")>>
    /\ ~Has(torrents, "h1")
    /\ eng["h1"] = NoTorrent

\* C27: every valid snapshot a stats tick takes carries the state of the
\* first rule, in this order, that the engine status of the torrent meets:
\* Error (error code not zero); Paused (paused, not auto-managed); Queued
\* (paused, auto-managed); Checking; Metadata; Stalled (downloading, under
\* 1024 B/s, at least one seed); Downloading; Completed (finished); Seeding;
\* otherwise Downloading.
StateRules(s) ==
    << <<s.errc # 0, "Error">>,
       <<s.paused /\ ~s.auto_managed, "Paused">>,
       <<s.paused /\ s.auto_managed, "Queued">>,
       <<s.state \in {"checking_files", "checking_resume_data"}, "Checking">>,
       <<s.state = "downloading_metadata", "Metadata">>,
       <<s.state = "downloading" /\ s.download_rate < 1024 /\ s.num_seeds > 0, "Stalled">>,
       <<s.state = "downloading", "Downloading">>,
       <<s.state = "finished", "Completed">>,
       <<s.state = "seeding", "Seeding">>,
       <<TRUE, "Downloading">> >>

FirstRule(s) ==
    LET rules == StateRules(s)
        first == CHOOSE i \in DOMAIN rules :
                    rules[i][1] /\ \A j \in 1..(i - 1) : ~rules[j][1]
    IN  rules[first][2]

C27_StateIsFirstRule ==
    [][update_stats =>
          \A i \in DOMAIN torrents' :
              /\ torrents'[i].snap.valid <=> eng[torrents[i].handle].st = "ok"
              /\ torrents'[i].snap.valid
                   => torrents'[i].snap.state = FirstRule(eng[torrents[i].handle])]_vars

\* a download under 1024 B/s with a seed connected was reported Stalled
C27_Witness ==
    /\ Len(torrents) = 1
    /\ eng["h1"].state = "downloading"
    /\ eng["h1"].download_rate = 1023
    /\ eng["h1"].num_seeds = 1
    /\ eng["h1"].errc = 0
    /\ ~eng["h1"].paused
    /\ Len(emitted) >= 1
    /\ emitted[1].type = "stats_updated"
    /\ torrents[1].snap.valid
    /\ torrents[1].snap.state = "Stalled"

Covering(rules, hr) ==
    {i \in DOMAIN rules :
        rule_get(rules[i].start, 0) <= hr /\ hr < rule_get(rules[i].end, 24)}

ScheduleLeaves(after, hr) ==
    LET schedule == cfg.bandwidth_schedule
        covering == Covering(schedule.rules, hr)
        first == CHOOSE i \in covering : \A j \in covering : i <= j
    IN  IF ~schedule.present \/ ~schedule.enabled
        THEN after = engine_limits
        ELSE IF covering # {}
        THEN /\ after.dl = rule_get(schedule.rules[first].dl, 0)
             /\ after.ul = rule_get(schedule.rules[first].ul, 0)
        ELSE /\ after.dl = cfg.max_download_speed
             /\ after.ul = cfg.max_upload_speed

C29_ScheduleTick ==
    /\ [](TimerFires("schedule")
            => \A hr \in Hours :
                  ScheduleLeaves(check_bandwidth_schedule_body(engine_limits, cfg, hr, session),
                                 hr))
    /\ [][\A hr \in Hours :
             check_bandwidth_schedule(hr) => ScheduleLeaves(engine_limits', hr)]_vars

\* two rules overlap from 12 to 18; the tick applied the one listed first
\* over limits the settings had set
C29_Witness ==
    /\ cfg.bandwidth_schedule = Schedule(TRUE, <<Rule(12, 22, 200, 20), Rule(8, 18, 100, 10)>>)
    /\ cfg.max_download_speed = 2048
    /\ engine_limits = [dl |-> 200, ul |-> 20]

\* C30: on an enabled filter, check_peer on a peer no whitelist prefix
\* covers bans with the reason of the first match in this order: the active
\* built-in peer-id prefixes, the built-in client-name patterns, the enabled
\* custom rules (the peer id starts with the pattern, or the pattern is found
\* in the client name), the blocklist with reason "IP blocklist"; it allows
\* exactly when none of them matches.  remove_custom_rule takes the rule at
\* its index out of the list, so that rule bans no more.
Least(hits) == CHOOSE i \in hits : \A j \in hits : i <= j

IdHits(peer) ==
    {i \in DOMAIN KNOWN_LEECHERS :
        /\ ~CategoryOff(KNOWN_LEECHERS[i].pattern)
        /\ StartsWith(peer_id_str(peer.peer_id), KNOWN_LEECHERS[i].pattern)}

NameHits(peer) ==
    {i \in DOMAIN SUSPICIOUS_CLIENTS : ReSearch(SUSPICIOUS_CLIENTS[i].pattern, peer.client)}

CustomHits(peer) ==
    {i \in DOMAIN filter.custom_bans :
        /\ filter.custom_bans[i].enabled
        /\ \/ StartsWith(peer_id_str(peer.peer_id), filter.custom_bans[i].pattern)
           \/ /\ ReCompiles(filter.custom_bans[i].text)
              /\ ReSearch(filter.custom_bans[i].text, peer.client)}

Blocked(peer) ==
    \E i \in DOMAIN filter.ip_blocklist :
        filter.ip_blocklist[i][1] <= peer.ip /\ peer.ip <= filter.ip_blocklist[i][2]

OrderedVerdict(peer) ==
    IF IdHits(peer) # {} THEN <<TRUE, KNOWN_LEECHERS[Least(IdHits(peer))].reason>>
    ELSE IF NameHits(peer) # {}
    THEN <<TRUE, SUSPICIOUS_CLIENTS[Least(NameHits(peer))].reason>>
    ELSE IF CustomHits(peer) # {}
    THEN <<TRUE, filter.custom_bans[Least(CustomHits(peer))].reason>>
    ELSE IF Blocked(peer) THEN <<TRUE, "IP blocklist">>
    ELSE <<FALSE, "">>

C30_MatchOrder ==
    [][/\ \A peer \in CustomPeers :
            (/\ filter.enabled
             /\ ~Whitelisted(peer)
             /\ call_check_peer(peer))
                => last_check' = <<peer, OrderedVerdict(peer)[1], OrderedVerdict(peer)[2]>>
       /\ \A index \in 0..MaxCustom :
            (index < Len(filter.custom_bans) /\ call_remove_custom_rule(index))
                => /\ Len(filter'.custom_bans) = Len(filter.custom_bans) - 1
                   /\ \A i \in DOMAIN filter'.custom_bans :
                         filter'.custom_bans[i] =
                             filter.custom_bans[IF i <= index THEN i ELSE i + 1]]_vars

\* C31: a check_peer call that bans puts exactly one record (time, ip,
\* client, reason) at the end of the ban log, one that allows leaves the log
\* as it is; the log never holds more than 500 records, and a ban that finds
\* it full drops the oldest record and keeps the others in their order.
C31_BanLog ==
    /\ [](Len(filter.ban_log) <= 500)
    /\ [][\A peer \in LogPeers :
             call_check_peer_any(peer)
                 => LET entry == [time |-> now, ip |-> peer.ip, client |-> peer.client,
                                 reason |-> last_check'[3]]
                    IN  IF last_check'[2]
                        THEN filter'.ban_log =
                                 IF Len(filter.ban_log) < 500
                                 THEN Append(filter.ban_log, entry)
                                 ELSE Append(Tail(filter.ban_log), entry)
                        ELSE filter'.ban_log = filter.ban_log]_vars

\* the log is full and its first ban, of the Xunlei peer id, has been dropped
\* for a later one; the last call allowed its peer
C31_Witness ==
    /\ Len(filter.ban_log) = 500
    /\ filter.ban_log[1].reason = "Thunder client name match"
    /\ filter.ban_log[500].reason = "Xunlei/Thunder"
    /\ last_check # NoCheck
    /\ ~last_check[2]

\* C32: whatever add_feed and remove_feed calls were made, a feed url has at
\* most one running repeating timer (the one _timers holds, and none beside
\* it); a url whose config is disabled or that was removed has none; and no
\* step starts a fetch for such a url, a warm-up one-shot of an earlier
\* add_feed that times out later included.
Idle(url) == rss.feeds[url] = NoFeed \/ ~rss.feeds[url].enabled

C32_TimersFollowFeeds ==
    /\ [](\A url \in FeedUrls :
            /\ rss.stray[url] = 0
            /\ Idle(url) => rss.timers[url] = NoTimer)
    /\ [][\A url \in FeedUrls :
             Idle(url) => (url \in rss.in_flight' => url \in rss.in_flight)]_vars

\* f1 was added and then removed; the one-shot of the add timed out
\* afterwards and started no fetch, while f2 still has its timer
C32_Witness ==
    /\ rss.feeds["f1"] = NoFeed
    /\ rss.last_timeout = [kind |-> "warmup", url |-> "f1"]
    /\ "f1" \notin rss.in_flight
    /\ rss.timers["f1"] = NoTimer
    /\ rss.timers["f2"] # NoTimer

\* C33: once stop_all has run (the pool is shut down) no step submits a
\* fetch, emits new_torrent or feed_checked, or writes a row of the history
\* store, whether a fetch that was in flight comes back, a result that was
\* queued is processed, or a timer times out.
C33_NothingAfterStop ==
    [][~rss.pool_open
          => /\ rss.in_flight' \subseteq rss.in_flight
             /\ \A i \in DOMAIN rss.emitted' :
                   rss.emitted'[i].type \notin {"new_torrent", "feed_checked"}
             /\ rss.seen_items' = rss.seen_items]_vars

\* C34: a fetch that comes back only queues its text: it reads and writes no
\* history row, counts nothing and emits nothing.  The queued results are
\* processed one at a time, and when two results that both carry an accepted
\* item of the same unique_id wait together, the processing of the first
\* counts the id once and leaves it seen, so that the second does not count
\* it again.
Queued(k) == [url |-> rss.results[k][1], items |-> rss.results[k][2]]

SharedIds ==
    { id \in ItemIds :
        /\ Len(rss.results) = 2
        /\ \A k \in 1..2 :
              /\ rss.feeds[Queued(k).url] # NoFeed
              /\ AcceptedIn(rss.feeds[Queued(k).url], Queued(k).items, id) }

C34_OneResultAtATime ==
    [][/\ Len(rss'.results) > Len(rss.results)
          => /\ rss'.seen_items = rss.seen_items
             /\ rss'.counted = rss.counted
             /\ rss'.emitted = <<>>
       /\ (rss'.emitted # <<>> \/ rss'.counted # rss.counted
              \/ rss'.seen_items # rss.seen_items)
          => rss.results # <<>> /\ rss'.results = Tail(rss.results)
       /\ (rss.results # <<>> /\ rss'.results = Tail(rss.results))
          => \A id \in SharedIds :
                ~is_seen(rss, id)
                   => /\ rss'.counted[id] = rss.counted[id] + 1
                      /\ is_seen(rss', id)]_vars

\* C35: while the controller has an engine, the installed IP filter denies
\* every address of every valid range line (NAME:START-END or START-END) of
\* the blocklist file of the config in force, whatever else the file holds;
\* a load denies nothing but the ranges of valid lines, and it leaves the
\* controller running.
RECURSIVE Unspaced(_)
Unspaced(text) ==
    IF text = <<>> THEN <<>>
    ELSE IF Head(text) = " " THEN Unspaced(Tail(text))
    ELSE <<Head(text)>> \o Unspaced(Tail(text))

AddressText(a) == IF a = 1 THEN <<"1">> ELSE <<"2">>

IsRangeLine(line, first, last) ==
    LET range == AddressText(first) \o <<"-">> \o AddressText(last)
        text == Unspaced(line)
    IN  /\ text # <<>>
        /\ Head(text) # "#"
        /\ \/ text = range
           \/ /\ Len(text) > Len(range) + 1
              /\ SubSeq(text, Len(text) - Len(range) + 1, Len(text)) = range
              /\ text[Len(text) - Len(range)] = ":"

ValidRanges(lines) ==
    { rg \in Addresses \X Addresses :
        rg[1] <= rg[2] /\ \E i \in DOMAIN lines : IsRangeLine(lines[i], rg[1], rg[2]) }

InRanges(a, lines) == \E rg \in ValidRanges(lines) : rg[1] <= a /\ a <= rg[2]

C35_ValidRangesInstalled ==
    /\ [](session => \A a \in Addresses :
                        InRanges(a, cfg.ip_blocklist) => engine_filter[a] = 1)
    /\ [][(initialize \/ \E c \in BlocklistConfigs : apply_settings(c))
            => /\ phase' = "running" <=> session'
               /\ \A a \in Addresses :
                     (session' /\ engine_filter'[a] = 1)
                        => \/ InRanges(a, cfg'.ip_blocklist)
                           \/ (session /\ engine_filter[a] = 1)]_vars

\* C36: a detail_updated signal bears the info_hash of the focused torrent,
\* which is not empty and is a key of the torrent table, and its data are
\* those of that torrent; it is the only one of its tick and comes after the
\* tick's stats_updated.
Details(sigs) == {i \in DOMAIN sigs : sigs[i].type = "detail_updated"}

C36_DetailOfFocused ==
    [][\A i \in Details(emitted') :
          /\ emitted'[i].info_hash = focused_hash'
          /\ emitted'[i].info_hash # NoHash
          /\ Has(torrents', emitted'[i].info_hash)
          /\ tick.pc = "detail" => emitted'[i].info_hash = tick.looked
          /\ Details(emitted') = {i}
          /\ \/ tick.pc = "detail"
             \/ i > 1 /\ emitted'[i - 1].type = "stats_updated"]_vars

\* C37: once the drain loop of shutdown has counted outstanding down to zero
\* before its deadline, the engine owes no answer to any torrent shutdown
\* asked a save of: the answer to shutdown's own request, the last one the
\* engine gives for the torrent, has been consumed, and not only answers to
\* requests of an earlier save tick.
C37_OwnAnswersConsumed ==
    (phase = "stopping" /\ outstanding <= 0 /\ elapsed < DrainTicks)
        => \A h \in ValidKeys(at_shutdown, eng) : pending[h] = 0

\* C38: while the controller has no session, before initialize and after
\* shutdown, no command (add_torrent_file, add_magnet, remove_torrent, the
\* per-torrent slots, pause_all, resume_all, apply_settings) emits a signal
\* or changes the torrent table or the Resume Store, and no timer callback
\* emits stats_updated or detail_updated.
C38_NoSessionNoEffect ==
    [][(~session /\ ~session')
          => /\ emitted' = <<>>
             /\ torrents' = torrents
             /\ resume_db' = resume_db]_vars

\* after shutdown has emitted stopped and left a row in the store, a command
\* has run (apply_settings, with a config of its own)
C38_Witness ==
    /\ phase = "stopped"
    /\ ~session
    /\ cfg.on_complete_action = 2
    /\ resume_db # <<>>
    /\ torrents = <<>>
    /\ emitted = <<>>

\* C39: with the schedule enabled and a rule covering the hour, once a
\* schedule tick has put the limits of the first covering rule in force, an
\* apply_settings whose config keeps the schedule as it is leaves the engine
\* limits at the rule's dl and ul.  (The rules' limits differ from every
\* limit of the settings, so limits equal to a rule's were set by a tick.)
RuleLimits(rules, hr) ==
    LET covering == Covering(rules, hr)
        first == CHOOSE i \in covering : \A j \in covering : i <= j
    IN  [dl |-> rule_get(rules[first].dl, 0), ul |-> rule_get(rules[first].ul, 0)]

InWindow(hr) ==
    /\ session
    /\ cfg.bandwidth_schedule.present
    /\ cfg.bandwidth_schedule.enabled
    /\ Covering(cfg.bandwidth_schedule.rules, hr) # {}
    /\ engine_limits = RuleLimits(cfg.bandwidth_schedule.rules, hr)

C39_ScheduleOutlastsSettings ==
    [][\A hr \in Hours, c \in ScheduleConfigs :
          (InWindow(hr) /\ c.bandwidth_schedule = cfg.bandwidth_schedule /\ apply_settings(c))
             => engine_limits' = RuleLimits(cfg.bandwidth_schedule.rules, hr)]_vars

\* C40: the category flags switch off peer-id prefix rules only.  On an
\* enabled filter, whatever the three flags, a peer that no whitelist prefix
\* covers and whose client string matches a built-in client-name pattern
\* (Xunlei, Thunder, QQDownload, the 7.x.x.x version pattern) is banned,
\* whatever its peer id; when no active prefix rule matches the peer id the
\* reason is that of the client-name pattern.
NameReason(client) ==
    CASE client = "Xunlei 7.2.1" -> "Xunlei client name match"
      [] client = "thunder 5" -> "Thunder client name match"
      [] client = "QQDownload 1.0" -> "QQ Download"
      [] client = "uTorrent 7.10.3.45" -> "Xunlei version pattern"
      [] OTHER -> ""

NameBans(peer, verdict) ==
    (filter.enabled /\ ~Whitelisted(peer) /\ NameReason(peer.client) # "")
        => /\ verdict[1]
           /\ IdHits(peer) = {} => verdict[2] = NameReason(peer.client)

C40_NameRulesIgnoreFlags ==
    /\ [](\A peer \in NamePeers :
             NameBans(peer, check_peer(filter, peer.peer_id, peer.client, peer.ip)))
    /\ [][\A peer \in NamePeers :
             call_check_peer(peer) => NameBans(peer, <<last_check'[2], last_check'[3]>>)]_vars

\* with auto_ban_xunlei off a "-XL" peer id is let through by the prefix
\* rules, and its client string "Xunlei 7.2.1" gets it banned
C40_Witness ==
    /\ filter.enabled
    /\ ~filter.ban_xunlei
    /\ last_check = <<[peer_id |-> PidXunlei, client |-> "Xunlei 7.2.1", ip |-> 1],
                      TRUE, "Xunlei client name match">>
    /\ filter.ban_log # <<>>
    /\ filter.ban_log[1].reason = "Xunlei client name match"

====
